---- MODULE Spec2Model ----
(***************************************************************************)
(* A model of the graph-execution engine of pyiron_contrib                 *)
(* (pyiron_contrib/protocol/graph.py): Vertex, Graph, Vertices and Edges,  *)
(* with the input/output channels of pyiron_contrib/protocol/io.py that    *)
(* the engine calls.                                                       *)
(***************************************************************************)
EXTENDS Integers, Sequences, FiniteSets, TLC

VARIABLES
    pc,                 \* where the caller / the constructor / the loop of Graph.function is
    op,                 \* the last call made on the graph or on one of its collections
    op_args,            \* the arguments of the last call made on a collection
    err,                \* the exception the last call raised, or "none"
    vertices,           \* Graph.vertices: key -> vertex object
    vorder,             \* the insertion order of the keys of Graph.vertices (dict order)
    vertex_name,        \* Vertex.vertex_name of every vertex object
    edges,              \* Graph.edges: name -> (state -> successor name or None)
    starting_vertex,    \* Graph.starting_vertex
    restarting_vertex,  \* Graph.restarting_vertex
    active_vertex,      \* Graph.active_vertex, the cursor
    vertex_state,       \* Vertex._vertex_state of every vertex object
    clock,              \* Vertex.clock of every vertex object
    decision,           \* the class of the decision vertex: "IsLess" or "IsGEq"
    whitelist,          \* the retention strides configured for the output channels
    n_pushes,           \* the pushes each output channel has received
    input,              \* Vertex.input of every vertex object: its channels' pointers and defaults
    output,             \* Vertex.output of every vertex object: the log of its output channel
    threshold,          \* the graph's static input read by the decision vertex
    graph_output,       \* the log of the graph's own output channel
    executions,         \* one record per child execution, in the order they happened,
                        \* with the values of every input resolution made in it
    run,                \* the current or last Graph.execute call: its first record, its first
                        \* cursor, the call made before it, the logs it started with
    n_calls,            \* calls made so far (bounds the behaviours)
    multi_combo_box,    \* a MultiComboBox (RDM/internal_widgets.py): its value list, options
                        \* and add_unknown, and the last event its handlers ran for
    gui_resource,       \* a GUI_Resource (RDM/RDM_gui.py): the displayed file system, its
                        \* upload button and one record per click of the button
    replaced,           \* the row that the last assignment of a row of Graph.edges took the
                        \* place of (empty if there was none)
    nested              \* the Graph registered as a child vertex, if there is one: its own
                        \* vertices, edges, cursor, where its function is, what it returned,
                        \* where its current execute began, whether reset() was called on it

vars == <<pc, op, op_args, err, vertices, vorder, vertex_name, edges, starting_vertex,
          restarting_vertex, active_vertex, vertex_state, clock, decision, whitelist,
          n_pushes, input, output, threshold, graph_output, executions, run, n_calls,
          multi_combo_box, gui_resource, replaced, nested>>

----------------------------------------------------------------------------
(* Values *)

\* Python's None: an unset vertex, name, successor or default
None == "None"

\* Vertex.DEFAULT_STATE
DEFAULT_STATE == "next"

\* The vertex objects: v1 and v2 keep the default state set, v3 is a decision
\* vertex that replaces it by {"true", "false"}
Objs == {"v1", "v2", "v3"}

\* The keys vertices are registered under
Names == {"a", "b", "c"}

\* The strings given as states in wiring calls
StateStrs == {"next", "true", "false"}

\* A value that is neither a Vertex nor a str
NotAVertex == "int"

\* The protocols of md.py
Protocols == {"MolecularDynamics", "ConfinedMD", "HarmonicMD", "ConfinedHarmonicMD"}

\* define_vertices of each protocol: the keys its vertices are registered
\* under, in the order of the assignments; a protocol's vertex object is
\* written as the key it is registered under
define_vertices(p) ==
    CASE p = "MolecularDynamics" ->
           <<"initial_velocities", "initial_forces", "initial_pressures", "check_steps",
             "clock", "barostat", "verlet_positions", "calc_static", "verlet_velocities">>
      [] p = "ConfinedMD" ->
           <<"initial_velocities", "initial_forces", "initial_pressures", "check_steps",
             "clock", "barostat", "verlet_positions", "reflect_atoms", "calc_static",
             "verlet_velocities", "running_average_positions", "check_thermalized",
             "running_average_forces", "nn", "running_average_nn_distance",
             "running_average_nn_forces">>
      [] p = "HarmonicMD" ->
           <<"initial_velocities", "initial_forces", "initial_pressures", "check_steps",
             "clock", "verlet_positions", "calc_harmonic", "verlet_velocities">>
      [] p = "ConfinedHarmonicMD" ->
           <<"initial_velocities", "initial_forces", "check_steps", "verlet_positions",
             "reflect_atoms", "harmonic", "verlet_velocities", "check_thermalized",
             "check_sampling_period", "running_average", "nn", "average_distance", "clock">>

\* the vertex objects of protocol p
ProtocolObjs(p) == {define_vertices(p)[i] : i \in DOMAIN define_vertices(p)}

\* The objects of a graph one of whose children is a Graph: the parent's children
\* are p1, the Graph g and the decision vertex p2; the children of g are w1 and
\* the decision vertex w2
ParentObjs == {"p1", "g", "p2"}

NestedObjs == {"w1", "w2"}

\* the vertex objects of class Graph
Graphs == {"g"}

\* the output channel a Graph declares (init_io_channels) for the key of its
\* get_output that carries the value of child w
OwnChannel == [w \in NestedObjs |-> CASE w = "w1" -> "g.w1" [] w = "w2" -> "g.w2"]

OwnChannels == {OwnChannel[w] : w \in NestedObjs}

\* the vertices of class IsGEq and of class ModIsZero
IsGEqVertices == {"check_steps", "check_thermalized"}

ModIsZeroVertices == {"check_sampling_period"}

\* the vertices whose class declares the states "true" and "false"
TwoState == {"v3", "p2", "w2"} \cup IsGEqVertices \cup ModIsZeroVertices

\* Vertex.possible_vertex_states, as set by the vertex class's __init__
possible_vertex_states(v) ==
    IF v \in TwoState THEN {"true", "false"} ELSE {DEFAULT_STATE}

\* the setter without the membership test
vertex_state_setter_Unchecked(vst, v, new_state) ==
    [vertex_state |-> [vst EXCEPT ![v] = new_state], err |-> "none"]

\* Vertex.vertex_state's setter: the reported states after v.vertex_state =
\* new_state, and the error
vertex_state_setter(vst, v, new_state) ==
    IF new_state \notin possible_vertex_states(v)
    THEN [vertex_state |-> vst, err |-> "ValueError"]
    ELSE [vertex_state |-> [vst EXCEPT ![v] = new_state], err |-> "none"]

\* isinstance(x, Vertex)
IsVertex(x) ==
    \/ x \in Objs \cup ParentObjs \cup NestedObjs
    \/ \E p \in Protocols : x \in ProtocolObjs(p)

\* isinstance(x, str)
IsStr(x) == x \in StateStrs

\* dict.__setitem__ on a map held as a function
Put(f, k, x) == [y \in (DOMAIN f) \cup {k} |-> IF y = k THEN x ELSE f[y]]

\* the empty dict
Empty == [y \in {} |-> None]

\* No MultiComboBox and no GUI_Resource has been constructed
NoComboBox == [value |-> <<>>, options |-> {}, add_unknown |-> FALSE, event |-> <<>>,
               err |-> "none"]

NoResource == [displayed_filesystem |-> None, click_counter |-> 0, disabled |-> FALSE,
               clicks |-> <<>>]

\* A graph none of whose children is a Graph: no nested function is running
NoNested ==
    [pc |-> "out", vertices |-> Empty, edges |-> Empty, starting_vertex |-> None,
     restarting_vertex |-> None, active_vertex |-> None, returned |-> <<>>,
     entry |-> [at |-> 0, start |-> None], was_reset |-> FALSE]

Last(s) == s[Len(s)]

----------------------------------------------------------------------------
(* Vertices and Edges: the collections *)

\* __setitem__ that stores the value before it checks its type
VerticesSetItem_ChecksLate(vs, ord, vn, key, value) ==
    [vertices |-> Put(vs, key, value),
     vorder |-> IF key \in DOMAIN vs THEN ord ELSE Append(ord, key),
     vertex_name |-> IF IsVertex(value) THEN [vn EXCEPT ![value] = key] ELSE vn,
     err |-> IF IsVertex(value) THEN "none" ELSE "TypeError"]

\* Vertices.__setitem__(key, value): the collection, the names and the error
VerticesSetItem(vs, ord, vn, key, value) ==
    IF ~IsVertex(value)
    THEN [vertices |-> vs, vorder |-> ord, vertex_name |-> vn, err |-> "TypeError"]
    ELSE [vertices |-> Put(vs, key, value),
          vorder |-> IF key \in DOMAIN vs THEN ord ELSE Append(ord, key),
          vertex_name |-> [vn EXCEPT ![value] = key],
          err |-> "none"]

\* __setitem__ that does not compare the key with the vertex's name
EdgesSetItem_NoNameCheck(ed, vn, key, value) ==
    IF ~IsVertex(value) THEN [edges |-> ed, err |-> "TypeError"]
    ELSE [edges |-> Put(ed, key, [s \in possible_vertex_states(value) |-> None]),
          err |-> "none"]

\* __setitem__ that keeps the successors of a row that is already there
EdgesSetItem_KeepsWired(ed, vn, key, value) ==
    IF ~IsVertex(value) THEN [edges |-> ed, err |-> "TypeError"]
    ELSE IF key # vn[value] THEN [edges |-> ed, err |-> "ValueError"]
    ELSE [edges |-> Put(ed, key,
                        [s \in possible_vertex_states(value) |->
                            IF key \in DOMAIN ed /\ s \in DOMAIN ed[key]
                            THEN ed[key][s] ELSE None]),
          err |-> "none"]

\* Edges.__setitem__(key, value): the new table and the error
EdgesSetItem(ed, vn, key, value) ==
    IF ~IsVertex(value) THEN [edges |-> ed, err |-> "TypeError"]
    ELSE IF key # vn[value] THEN [edges |-> ed, err |-> "ValueError"]
    ELSE [edges |-> Put(ed, key, [s \in possible_vertex_states(value) |-> None]),
          err |-> "none"]

\* Edges.initialize(vertex)
EdgesInitialize(ed, vn, vertex) == EdgesSetItem(ed, vn, vn[vertex], vertex)

\* Graph._initialize_edges: initialize the row of every value of the vertex
\* collection, in the collection's key order, starting with the i-th key
RECURSIVE InitializeEdgesFrom(_, _, _, _, _)
InitializeEdgesFrom(ed, vs, ord, vn, i) ==
    IF i > Len(ord) THEN ed
    ELSE InitializeEdgesFrom(EdgesInitialize(ed, vn, vs[ord[i]]).edges, vs, ord, vn, i + 1)

\* _initialize_edges that stops after the first vertex of the collection
initialize_edges_FirstOnly(ed, vs, ord, vn) ==
    IF ord = <<>> THEN ed ELSE EdgesInitialize(ed, vn, vs[ord[1]]).edges

\* Graph._initialize_edges
initialize_edges(ed, vs, ord, vn) == InitializeEdgesFrom(ed, vs, ord, vn, 1)

\* One pass of the loop of Edges.set_flow_chain over args[:-1], from index n
\* (1-based) on: the table as written so far and the error that ended the call
RECURSIVE FlowChainFrom(_, _, _, _)
FlowChainFrom(ed, vn, args, n) ==
    IF n > Len(args) - 1 THEN [edges |-> ed, err |-> "none"]
    ELSE IF ~IsVertex(args[n]) THEN FlowChainFrom(ed, vn, args, n + 1)
    ELSE LET vertex   == args[n]
             next_obj == args[n + 1]
             isstr    == IsStr(next_obj)
         IN  IF isstr /\ n + 2 > Len(args)
             THEN [edges |-> ed, err |-> "IndexError"]
             ELSE LET state       == IF isstr THEN next_obj ELSE DEFAULT_STATE
                      next_vertex == IF isstr THEN args[n + 2] ELSE args[n + 1]
                  IN  IF ~IsVertex(next_vertex)
                      THEN [edges |-> ed, err |-> "TypeError"]
                      ELSE IF state \notin possible_vertex_states(vertex)
                      THEN [edges |-> ed, err |-> "KeyError"]
                      ELSE IF vn[vertex] \notin DOMAIN ed
                      THEN [edges |-> ed, err |-> "KeyError"]
                      ELSE FlowChainFrom(
                               [ed EXCEPT ![vn[vertex]] = Put(@, state, vn[next_vertex])],
                               vn, args, n + 1)

\* set_flow_chain that writes the edge without looking at the declared states
RECURSIVE FlowChainFrom_NoStateCheck(_, _, _, _)
FlowChainFrom_NoStateCheck(ed, vn, args, n) ==
    IF n > Len(args) - 1 THEN [edges |-> ed, err |-> "none"]
    ELSE IF ~IsVertex(args[n]) THEN FlowChainFrom_NoStateCheck(ed, vn, args, n + 1)
    ELSE LET vertex   == args[n]
             next_obj == args[n + 1]
             isstr    == IsStr(next_obj)
         IN  IF isstr /\ n + 2 > Len(args)
             THEN [edges |-> ed, err |-> "IndexError"]
             ELSE LET state       == IF isstr THEN next_obj ELSE DEFAULT_STATE
                      next_vertex == IF isstr THEN args[n + 2] ELSE args[n + 1]
                  IN  IF ~IsVertex(next_vertex)
                      THEN [edges |-> ed, err |-> "TypeError"]
                      ELSE IF vn[vertex] \notin DOMAIN ed
                      THEN [edges |-> ed, err |-> "KeyError"]
                      ELSE FlowChainFrom_NoStateCheck(
                               [ed EXCEPT ![vn[vertex]] = Put(@, state, vn[next_vertex])],
                               vn, args, n + 1)

set_flow_chain_NoStateCheck(ed, vn, args) == FlowChainFrom_NoStateCheck(ed, vn, args, 1)

\* set_flow_chain that replaces the source's row by the one entry it writes
RECURSIVE FlowChainFrom_ReplacesRow(_, _, _, _)
FlowChainFrom_ReplacesRow(ed, vn, args, n) ==
    IF n > Len(args) - 1 THEN [edges |-> ed, err |-> "none"]
    ELSE IF ~IsVertex(args[n]) THEN FlowChainFrom_ReplacesRow(ed, vn, args, n + 1)
    ELSE LET vertex   == args[n]
             next_obj == args[n + 1]
             isstr    == IsStr(next_obj)
         IN  IF isstr /\ n + 2 > Len(args)
             THEN [edges |-> ed, err |-> "IndexError"]
             ELSE LET state       == IF isstr THEN next_obj ELSE DEFAULT_STATE
                      next_vertex == IF isstr THEN args[n + 2] ELSE args[n + 1]
                  IN  IF ~IsVertex(next_vertex)
                      THEN [edges |-> ed, err |-> "TypeError"]
                      ELSE IF state \notin possible_vertex_states(vertex)
                      THEN [edges |-> ed, err |-> "KeyError"]
                      ELSE IF vn[vertex] \notin DOMAIN ed
                      THEN [edges |-> ed, err |-> "KeyError"]
                      ELSE FlowChainFrom_ReplacesRow(
                               [ed EXCEPT ![vn[vertex]] = [s \in {state} |-> vn[next_vertex]]],
                               vn, args, n + 1)

set_flow_chain_ReplacesRow(ed, vn, args) == FlowChainFrom_ReplacesRow(ed, vn, args, 1)

\* set_flow_chain that gives the table back as it found it when it raises
set_flow_chain_Atomic(ed, vn, args) ==
    LET r == FlowChainFrom(ed, vn, args, 1)
    IN  IF r.err = "none" THEN r ELSE [edges |-> ed, err |-> r.err]

\* Edges.set_flow_chain(*args)
set_flow_chain(ed, vn, args) == FlowChainFrom(ed, vn, args, 1)

----------------------------------------------------------------------------
(* Channels: Input.resolve and Output.push *)

\* An input channel: the vertex whose output channel its pointer reads at
\* index -1, and its default, if it has one
Channel(target, has_default) ==
    [target |-> target, has_default |-> has_default, default |-> 0]

\* An input channel bound to a value of the graph's own input
StaticInput(value) ==
    [target |-> None, has_default |-> TRUE, default |-> value]

\* Resolving one input channel against the current output logs: the log's most
\* recent value if the log is non-empty, else the default, else a failure; a
\* channel bound to the graph's input yields that input's value
ResolveChannel(ch, out) ==
    IF ch.target = None THEN [ok |-> TRUE, value |-> ch.default]
    ELSE IF out[ch.target] # <<>> THEN [ok |-> TRUE, value |-> Last(out[ch.target])]
    ELSE IF ch.has_default THEN [ok |-> TRUE, value |-> ch.default]
    ELSE [ok |-> FALSE, value |-> 0]

\* Input.resolve(): every channel of the input, all or nothing
InputResolve(inp, out) ==
    [ok     |-> \A i \in DOMAIN inp : ResolveChannel(inp[i], out).ok,
     values |-> [i \in DOMAIN inp |-> ResolveChannel(inp[i], out).value]]

\* a retention configuration that keeps every second value of a channel it
\* does not name
Stride_AbsentIsCoarse(wl, v) == IF v \in DOMAIN wl THEN wl[v] ELSE 2

\* The retention stride the whitelist gives the output channel of v; a channel
\* the whitelist does not name is retained in full
Stride(wl, v) == IF v \in DOMAIN wl THEN wl[v] ELSE 1

\* Output channel push, for a channel with stride S that has received n pushes:
\* the value opens a new retained entry when n is a multiple of S, and takes
\* the place of the most recent entry otherwise
Push(log, n, S, value) ==
    IF n % S = 0 THEN Append(log, value)
    ELSE [log EXCEPT ![Len(log)] = value]

RECURSIVE SumSeq(_)
SumSeq(s) == IF s = <<>> THEN 0 ELSE s[1] + SumSeq(Tail(s))

\* a function whose decision vertices report "true" only above the threshold
function_Strict(v, values, thr, state, kind) ==
    [value |-> SumSeq(values) + 1,
     state |-> IF v \in TwoState
               THEN (IF values[1] > thr THEN "true" ELSE "false")
               ELSE state]

\* Vertex.function of the child vertices: the output is one more than the sum of
\* the resolved inputs; the decision vertex compares its first resolved input
\* with the threshold and reports "true" or "false" (an IsLess vertex reports
\* "true" while the input is below the threshold, an IsGEq vertex once the
\* input has reached it); a protocol's IsGEq vertex with a threshold channel
\* reports "true" once its target has reached the threshold, its ModIsZero vertex
\* when its target is a multiple of its mod; the other vertices leave their
\* state alone
function(v, values, thr, state, kind) ==
    [value |-> SumSeq(values) + 1,
     state |-> IF v \in {"v3", "check_steps", "p2", "w2"}
               THEN (IF (values[1] < thr) = (kind = "IsLess") THEN "true" ELSE "false")
               ELSE IF v \in IsGEqVertices
               THEN (IF values[1] >= values[2] THEN "true" ELSE "false")
               ELSE IF v \in ModIsZeroVertices
               THEN (IF values[1] % values[2] = 0 THEN "true" ELSE "false")
               ELSE state]

\* execute() that calls function and drops its result
VertexExecute_NoPush(v, inp, out, thr, state, kind, wl, n) ==
    LET r == InputResolve(inp[v], out)
    IN  IF ~r.ok
        THEN [err |-> "UnresolvedReference", output |-> out, n_pushes |-> n, state |-> state,
              resolved |-> r.values, pushed |-> <<>>,
              resolutions |-> <<r.values>>]
        ELSE LET f == function(v, r.values, thr, state, kind)
             IN  [err |-> "none", output |-> out, n_pushes |-> n, state |-> f.state,
                  resolved |-> r.values, pushed |-> <<f.value>>,
                  resolutions |-> <<r.values, r.values>>]

\* execute() that uses the input as resolved at wiring time, when every output
\* log was empty
VertexExecute_ResolvedAtWiring(v, inp, out, thr, state, kind, wl, n) ==
    LET r == InputResolve(inp[v], [w \in DOMAIN out |-> <<>>])
    IN  IF ~r.ok
        THEN [err |-> "UnresolvedReference", output |-> out, n_pushes |-> n, state |-> state,
              resolved |-> r.values, pushed |-> <<>>,
              resolutions |-> <<r.values>>]
        ELSE LET f == function(v, r.values, thr, state, kind)
             IN  [err |-> "none",
                  output |-> [out EXCEPT ![v] = Push(@, n[v], Stride(wl, v), f.value)],
                  n_pushes |-> [n EXCEPT ![v] = @ + 1],
                  state |-> f.state,
                  resolved |-> r.values,
                  pushed |-> <<f.value>>,
                  resolutions |-> <<r.values, r.values>>]

\* execute() that passes the channels' defaults to function where it has them
VertexExecute_DefaultFirst(v, inp, out, thr, state, kind, wl, n) ==
    LET r == InputResolve(inp[v], out)
        values == [i \in DOMAIN inp[v] |->
                      IF inp[v][i].has_default THEN inp[v][i].default ELSE r.values[i]]
    IN  IF ~r.ok
        THEN [err |-> "UnresolvedReference", output |-> out, n_pushes |-> n, state |-> state,
              resolved |-> r.values, pushed |-> <<>>,
              resolutions |-> <<r.values>>]
        ELSE LET f == function(v, values, thr, state, kind)
             IN  [err |-> "none",
                  output |-> [out EXCEPT ![v] = Push(@, n[v], Stride(wl, v), f.value)],
                  n_pushes |-> [n EXCEPT ![v] = @ + 1],
                  state |-> f.state,
                  resolved |-> values,
                  pushed |-> <<f.value>>,
                  resolutions |-> <<r.values, r.values>>]

\* execute() that does not stop at an unresolved input
VertexExecute_IgnoresUnresolved(v, inp, out, thr, state, kind, wl, n) ==
    LET r == InputResolve(inp[v], out)
        f == function(v, r.values, thr, state, kind)
    IN  [err |-> "none",
         output |-> [out EXCEPT ![v] = Push(@, n[v], Stride(wl, v), f.value)],
         n_pushes |-> [n EXCEPT ![v] = @ + 1],
         state |-> f.state,
         resolved |-> r.values,
         pushed |-> <<f.value>>,
         resolutions |-> <<r.values, r.values>>]

\* execute() whose push leaves the channel's count of pushes alone
VertexExecute_NoCount(v, inp, out, thr, state, kind, wl, n) ==
    LET r == InputResolve(inp[v], out)
    IN  IF ~r.ok
        THEN [err |-> "UnresolvedReference", output |-> out, n_pushes |-> n, state |-> state,
              resolved |-> r.values, pushed |-> <<>>,
              resolutions |-> <<r.values>>]
        ELSE LET f == function(v, r.values, thr, state, kind)
             IN  [err |-> "none",
                  output |-> [out EXCEPT ![v] = Push(@, n[v], Stride(wl, v), f.value)],
                  n_pushes |-> n,
                  state |-> f.state,
                  resolved |-> r.values,
                  pushed |-> <<f.value>>,
                  resolutions |-> <<r.values, r.values>>]

\* Vertex.execute() of child v: the input is resolved for the print of line 56
\* and resolved again for the call of function on line 57, whose result is
\* pushed (update_and_archive); a failed resolution raises in the first of the
\* two, before function is called
VertexExecute(v, inp, out, thr, state, kind, wl, n) ==
    LET shown == InputResolve(inp[v], out)
    IN  IF ~shown.ok
        THEN [err |-> "UnresolvedReference", output |-> out, n_pushes |-> n, state |-> state,
              resolved |-> shown.values, pushed |-> <<>>,
              resolutions |-> <<shown.values>>]
        ELSE LET r == InputResolve(inp[v], out)
                 f == function(v, r.values, thr, state, kind)
             IN  [err |-> "none",
                  output |-> [out EXCEPT ![v] = Push(@, n[v], Stride(wl, v), f.value)],
                  n_pushes |-> [n EXCEPT ![v] = @ + 1],
                  state |-> f.state,
                  resolved |-> r.values,
                  pushed |-> <<f.value>>,
                  resolutions |-> <<shown.values, r.values>>]

\* step() that forgets to clear the cursor when the table yields no successor
step_KeepsCursor(ed, vs, vn, vst, active) ==
    IF active = None THEN [active_vertex |-> active, err |-> "none"]
    ELSE LET next_vertex_name == ed[vn[active]][vst[active]]
         IN  IF next_vertex_name = None THEN [active_vertex |-> active, err |-> "none"]
             ELSE [active_vertex |-> vs[next_vertex_name], err |-> "none"]

\* step() that ignores the reported state: it follows one fixed entry of the row
step_IgnoresState(ed, vs, vn, vst, active) ==
    IF active = None THEN [active_vertex |-> active, err |-> "none"]
    ELSE LET row == ed[vn[active]]
             next_vertex_name == row[CHOOSE s \in DOMAIN row : TRUE]
         IN  IF next_vertex_name = None THEN [active_vertex |-> None, err |-> "none"]
             ELSE [active_vertex |-> vs[next_vertex_name], err |-> "none"]

\* Graph.step(): the next cursor, or the lookup error
step(ed, vs, vn, vst, active) ==
    IF active = None THEN [active_vertex |-> active, err |-> "none"]
    ELSE IF vn[active] \notin DOMAIN ed \/ vst[active] \notin DOMAIN ed[vn[active]]
    THEN [active_vertex |-> active, err |-> "KeyError"]
    ELSE LET next_vertex_name == ed[vn[active]][vst[active]]
         IN  IF next_vertex_name = None THEN [active_vertex |-> None, err |-> "none"]
             ELSE IF next_vertex_name \notin DOMAIN vs
             THEN [active_vertex |-> active, err |-> "KeyError"]
             ELSE [active_vertex |-> vs[next_vertex_name], err |-> "none"]

\* Graph.get_output(): the most recent value of every child output that has one
get_output(out) ==
    [v \in {w \in DOMAIN out : out[w] # <<>>} |-> Last(out[v])]

\* update_and_archive that returns after the first entry it pushes
update_and_archive_OneKey(out, n, wl, channel, output_data) ==
    LET first == IF DOMAIN output_data = {} THEN {}
                 ELSE {CHOOSE k \in DOMAIN output_data : TRUE}
        Keys(c) == {k \in first : channel[k] = c}
        KeyOf(c) == CHOOSE k \in Keys(c) : TRUE
    IN  [output   |-> [c \in DOMAIN out |->
                          IF Keys(c) = {} THEN out[c]
                          ELSE Push(out[c], n[c], Stride(wl, c), output_data[KeyOf(c)])],
         n_pushes |-> [c \in DOMAIN n |-> IF Keys(c) = {} THEN n[c] ELSE n[c] + 1]]

\* Vertex.update_and_archive of a Graph: every entry of output_data is pushed
\* onto the output channel of its key
update_and_archive(out, n, wl, channel, output_data) ==
    LET Keys(c) == {k \in DOMAIN output_data : channel[k] = c}
        KeyOf(c) == CHOOSE k \in Keys(c) : TRUE
    IN  [output   |-> [c \in DOMAIN out |->
                          IF Keys(c) = {} THEN out[c]
                          ELSE Push(out[c], n[c], Stride(wl, c), output_data[KeyOf(c)])],
         n_pushes |-> [c \in DOMAIN n |-> IF Keys(c) = {} THEN n[c] ELSE n[c] + 1]]

\* reset() without its precondition check
reset_NoGuard(active, restarting) ==
    [active_vertex |-> restarting, err |-> "none"]

\* reset() that checks the precondition and forgets the assignment
reset_NoAssign(active, restarting) ==
    IF active # None THEN [active_vertex |-> active, err |-> "ValueError"]
    ELSE [active_vertex |-> active, err |-> "none"]

\* reset() that puts the cursor back on the starting vertex
reset_Rewinds(active, restarting) ==
    IF active # None THEN [active_vertex |-> active, err |-> "ValueError"]
    ELSE [active_vertex |-> starting_vertex, err |-> "none"]

\* reset() that refuses a graph without a restarting vertex
reset_RequiresRestart(active, restarting) ==
    IF active # None \/ restarting = None
    THEN [active_vertex |-> active, err |-> "ValueError"]
    ELSE [active_vertex |-> restarting, err |-> "none"]

\* Graph.reset(): the cursor and the error
reset(active, restarting) ==
    IF active # None THEN [active_vertex |-> active, err |-> "ValueError"]
    ELSE [active_vertex |-> restarting, err |-> "none"]

----------------------------------------------------------------------------
(* Bounds *)

\* calls of execute() and reset() a caller makes on one graph
MaxCalls == 3

\* child executions in one history
MaxExec == 4

\* the largest threshold given as static input
MaxThreshold == 3

\* assignments to the vertex collection in one set_vertices
MaxInserts == 3

\* calls of set_flow_chain in one set_edges
MaxChains == 2

\* the largest retention stride a whitelist gives
MaxStride == 2

----------------------------------------------------------------------------
(* A constructed graph: three registered vertices, any transition table *)

RegisteredVertices == [n \in Names |-> CASE n = "a" -> "v1" [] n = "b" -> "v2" [] n = "c" -> "v3"]

RegisteredNames == [v \in Objs |-> CASE v = "v1" -> "a" [] v = "v2" -> "b" [] v = "v3" -> "c"]

\* the rows Edges.initialize and set_flow_chain can leave for vertex v
Rows(v) == [possible_vertex_states(v) -> Names \cup {None}]

Tables ==
    {[n \in Names |-> CASE n = "a" -> ra [] n = "b" -> rb [] n = "c" -> rc] :
        ra \in Rows("v1"), rb \in Rows("v2"), rc \in Rows("v3")}

\* every child counts its own executions: its one input reads its own output,
\* with default 0
CounterWiring == [v \in Objs |-> <<Channel(v, TRUE)>>]

\* The state Graph.__init__ leaves, for the wiring calls the subclass made
\* the whitelist of a protocol that names no channel
NoWhitelist == [v \in {} |-> 1]

Constructed(table, start, restart, wiring, thr, kind, wl) ==
    /\ pc = "idle"
    /\ op = "init"
    /\ op_args = <<>>
    /\ err = "none"
    /\ vertices = RegisteredVertices
    /\ vorder = <<"a", "b", "c">>
    /\ vertex_name = RegisteredNames
    /\ edges = table
    /\ starting_vertex = start
    /\ restarting_vertex = restart
    /\ active_vertex = start
    /\ vertex_state = [v \in Objs |-> DEFAULT_STATE]
    /\ clock = [v \in Objs |-> 0]
    /\ decision = kind
    /\ whitelist = wl
    /\ n_pushes = [v \in Objs |-> 0]
    /\ input = wiring
    /\ output = [v \in Objs |-> <<>>]
    /\ threshold = thr
    /\ graph_output = <<>>
    /\ executions = <<>>
    /\ run = [base |-> 0, start |-> None, prev |-> "none", prev_err |-> "none",
              output |-> [v \in Objs |-> <<>>]]
    /\ n_calls = 0
    /\ replaced = Empty
    /\ multi_combo_box = NoComboBox
    /\ gui_resource = NoResource
    /\ nested = NoNested

Init ==
    \E table \in Tables, start \in Objs \cup {None}, restart \in {None, "v1", "v3"},
       thr \in {MaxThreshold - 2, MaxThreshold} :
        Constructed(table, start, restart, CounterWiring, thr, "IsLess", NoWhitelist)

\* The wirings of one child v: its input channels read its own output, the
\* output of the vertex before it (v3 before v1) or the one after it, with or
\* without a default
Before(v) == CASE v = "v1" -> "v3" [] v = "v2" -> "v1" [] v = "v3" -> "v2"

After(v) == CASE v = "v1" -> "v2" [] v = "v2" -> "v3" [] v = "v3" -> "v1"

InputMenu(v) ==
    { <<Channel(v, TRUE)>>,
      <<Channel(Before(v), TRUE)>>,
      <<Channel(Before(v), FALSE)>>,
      <<Channel(v, TRUE), Channel(Before(v), TRUE)>>,
      <<Channel(v, TRUE), Channel(After(v), FALSE)>> }

Wirings ==
    {[v \in Objs |-> CASE v = "v1" -> i1 [] v = "v2" -> i2 [] v = "v3" -> i3] :
        i1 \in InputMenu("v1"), i2 \in InputMenu("v2"), i3 \in InputMenu("v3")}

\* the tables in which the decision vertex's "false" ends the run
EndingTables == {t \in Tables : t["c"]["false"] = None}

\* Constructed graphs for the data flow: any of the wirings above
InitData ==
    \E table \in EndingTables, wiring \in Wirings :
        Constructed(table, "v1", None, wiring, MaxThreshold - 1, "IsLess", NoWhitelist)

----------------------------------------------------------------------------
(* Running a graph *)

\* execute() that starts every run at the starting vertex
GraphExecute_Rewinds ==
    /\ pc = "idle"
    /\ n_calls < MaxCalls
    /\ pc' = "loop"
    /\ op' = "execute"
    /\ err' = "none"
    /\ n_calls' = n_calls + 1
    /\ active_vertex' = starting_vertex
    /\ run' = [base |-> Len(executions), start |-> starting_vertex,
               prev |-> op, prev_err |-> err, output |-> output]
    /\ UNCHANGED <<multi_combo_box, gui_resource, replaced, nested, op_args, vertices,
                   vorder, vertex_name, edges, starting_vertex, restarting_vertex,
                   vertex_state, input, output, threshold, graph_output, executions, clock,
                   decision, whitelist, n_pushes>>

\* execute() that takes the restarting vertex when the cursor is empty
GraphExecute_StartsAtRestart ==
    /\ pc = "idle"
    /\ n_calls < MaxCalls
    /\ pc' = "loop"
    /\ op' = "execute"
    /\ err' = "none"
    /\ n_calls' = n_calls + 1
    /\ active_vertex' = (IF active_vertex = None THEN restarting_vertex ELSE active_vertex)
    /\ run' = [base |-> Len(executions), start |-> active_vertex,
               prev |-> op, prev_err |-> err, output |-> output]
    /\ UNCHANGED <<multi_combo_box, gui_resource, replaced, nested, op_args, vertices,
                   vorder, vertex_name, edges, starting_vertex, restarting_vertex,
                   vertex_state, input, output, threshold, graph_output, executions, clock,
                   decision, whitelist, n_pushes>>

\* the caller calls execute() on the graph: Vertex.execute enters Graph.function
GraphExecute ==
    /\ pc = "idle"
    /\ n_calls < MaxCalls
    /\ pc' = "loop"
    /\ op' = "execute"
    /\ err' = "none"
    /\ n_calls' = n_calls + 1
    /\ run' = [base |-> Len(executions), start |-> active_vertex,
               prev |-> op, prev_err |-> err, output |-> output]
    /\ UNCHANGED <<multi_combo_box, gui_resource, replaced, nested, op_args, vertices,
                   vorder, vertex_name, edges, starting_vertex, restarting_vertex,
                   active_vertex, vertex_state, input, output, threshold, graph_output,
                   executions, clock, decision, whitelist, n_pushes>>

\* a loop that goes on to step() when the child's execute has raised
ExecuteActive_Swallows ==
    /\ pc = "loop"
    /\ active_vertex # None
    /\ active_vertex \notin Graphs
    /\ LET r == VertexExecute(active_vertex, input, output, threshold,
                              vertex_state[active_vertex], decision, whitelist, n_pushes)
       IN  /\ output' = r.output
           /\ n_pushes' = r.n_pushes
           /\ vertex_state' = [vertex_state EXCEPT ![active_vertex] = r.state]
           /\ executions' = Append(executions,
                  [vertex |-> active_vertex, resolved |-> r.resolved,
                   pushed |-> r.pushed, err |-> r.err, resolutions |-> r.resolutions])
           /\ err' = r.err
           /\ pc' = "step"
    /\ UNCHANGED <<multi_combo_box, gui_resource, replaced, nested, op_args, op, vertices,
                   vorder, vertex_name, edges, starting_vertex, restarting_vertex,
                   active_vertex, input, threshold, graph_output, run, n_calls, clock,
                   decision, whitelist>>

\* self.active_vertex.execute() for the vertex under the cursor
ExecuteActive ==
    /\ pc = "loop"
    /\ active_vertex # None
    /\ active_vertex \notin Graphs
    /\ LET r == VertexExecute(active_vertex, input, output, threshold,
                              vertex_state[active_vertex], decision, whitelist, n_pushes)
       IN  /\ output' = r.output
           /\ n_pushes' = r.n_pushes
           /\ vertex_state' = [vertex_state EXCEPT ![active_vertex] = r.state]
           /\ executions' = Append(executions,
                  [vertex |-> active_vertex, resolved |-> r.resolved,
                   pushed |-> r.pushed, err |-> r.err, resolutions |-> r.resolutions])
           /\ err' = r.err
           /\ pc' = IF r.err = "none" THEN "step" ELSE "idle"
    /\ UNCHANGED <<multi_combo_box, gui_resource, replaced, nested, op_args, op, vertices,
                   vorder, vertex_name, edges, starting_vertex, restarting_vertex,
                   active_vertex, input, threshold, graph_output, run, n_calls, clock,
                   decision, whitelist>>

\* Graph.function, loop body, second statement: self.step()
Step ==
    /\ pc = "step"
    /\ LET r == step(edges, vertices, vertex_name, vertex_state, active_vertex)
       IN  /\ active_vertex' = r.active_vertex
           /\ err' = r.err
           /\ pc' = IF r.err = "none" THEN "loop" ELSE "idle"
    /\ UNCHANGED <<multi_combo_box, gui_resource, replaced, nested, op_args, op, vertices,
                   vorder, vertex_name, edges, starting_vertex, restarting_vertex,
                   vertex_state, input, output, threshold, graph_output, executions, run,
                   n_calls, clock, decision, whitelist, n_pushes>>

\* Graph.function after the loop, and the rest of Vertex.execute: get_output()
\* is collected and pushed onto the graph's own output
LoopExit ==
    /\ pc = "loop"
    /\ active_vertex = None
    /\ graph_output' = Append(graph_output, get_output(output))
    /\ pc' = "idle"
    /\ UNCHANGED <<multi_combo_box, gui_resource, replaced, nested, op_args, op, err,
                   vertices, vorder, vertex_name, edges, starting_vertex, restarting_vertex,
                   active_vertex, vertex_state, input, output, threshold, executions, run,
                   n_calls, clock, decision, whitelist, n_pushes>>

\* the caller calls reset() on the graph
Reset ==
    /\ pc = "idle"
    /\ n_calls < MaxCalls
    /\ LET r == reset(active_vertex, restarting_vertex)
       IN  /\ active_vertex' = r.active_vertex
           /\ err' = r.err
    /\ op' = "reset"
    /\ n_calls' = n_calls + 1
    /\ UNCHANGED <<multi_combo_box, gui_resource, replaced, nested, op_args, pc, vertices,
                   vorder, vertex_name, edges, starting_vertex, restarting_vertex,
                   vertex_state, input, output, threshold, graph_output, executions, run,
                   clock, decision, whitelist, n_pushes>>

\* Graph.function, loop body, first statement: self.active_vertex.execute()
ChildExecute ==
    /\ Len(executions) < MaxExec
    /\ ExecuteActive

Next == GraphExecute \/ ChildExecute \/ Step \/ LoopExit \/ Reset

Spec == Init /\ [][Next]_vars

SpecData == InitData /\ [][Next]_vars

\* the whitelists: a stride for some of the output channels
Whitelists == UNION {[S -> 1..MaxStride] : S \in SUBSET Objs}

\* the tables with a back-edge: the decision vertex's "false" leads to a vertex,
\* its "true" to no successor
LoopTables == {t \in Tables : t["c"]["true"] = None /\ t["c"]["false"] # None}

\* Constructed graphs with a back-edge out of an IsGEq vertex, as in the
\* protocols of md.py, under any whitelist
InitLoop ==
    \E table \in LoopTables, start \in {"v1", "v3"}, wl \in Whitelists,
       thr \in {MaxThreshold - 2, MaxThreshold - 1} :
        Constructed(table, start, "v3", CounterWiring, thr, "IsGEq", wl)

SpecLoop == InitLoop /\ [][Next]_vars

----------------------------------------------------------------------------
(* Assigning a vertex's reported state *)

\* what a caller may assign to vertex_state
StateValues == StateStrs \cup {NotAVertex}

\* Constructed graphs with a back-edge, started at the first vertex or at the
\* decision vertex
InitState ==
    \E table \in LoopTables, start \in {"v1", "v3"} :
        Constructed(table, start, "v3", CounterWiring, MaxThreshold - 1, "IsGEq", NoWhitelist)

\* between two calls on the graph, the caller assigns v.vertex_state = new_state
AssignState(v, new_state) ==
    /\ pc = "idle"
    /\ LET r == vertex_state_setter(vertex_state, v, new_state)
       IN  /\ vertex_state' = r.vertex_state
           /\ err' = r.err
    /\ op' = "set_vertex_state"
    /\ op_args' = <<v, new_state>>
    /\ UNCHANGED <<pc, vertices, vorder, vertex_name, edges, starting_vertex,
                   restarting_vertex, active_vertex, clock, decision, whitelist, n_pushes,
                   input, output, threshold, graph_output, executions, run, n_calls,
                   multi_combo_box, gui_resource, replaced, nested>>

NextState ==
    \/ GraphExecute
    \/ ChildExecute
    \/ Step
    \/ LoopExit
    \/ Reset
    \/ \E v \in Objs, new_state \in StateValues : AssignState(v, new_state)

SpecState == InitState /\ [][NextState]_vars

----------------------------------------------------------------------------
(* Constructing a graph: Graph.__init__ *)

\* what the subclass's set_vertices may assign to a key
Values == Objs \cup {NotAVertex}

\* what the subclass's set_edges may pass to set_flow_chain
Tokens == Objs \cup StateStrs \cup {NotAVertex}

\* the argument lists of two or three arguments that start with a vertex or
\* with the default state
ArgLists ==
    {args \in [1..2 -> Tokens] \cup [1..3 -> Tokens] : args[1] \in Objs \cup {DEFAULT_STATE}}

\* the argument lists that chain two vertices, along the default state or
\* along a named state of a decision vertex
ChainLists ==
    {<<x, y>> : x \in Objs, y \in Objs} \cup
    {<<x, s, y>> : x \in Objs, s \in {"true", "false"}, y \in Objs}

\* Graph.__init__ up to the call of set_vertices
InitWire ==
    /\ pc = "set_vertices"
    /\ op = "init"
    /\ op_args = <<>>
    /\ err = "none"
    /\ vertices = Empty
    /\ vorder = <<>>
    /\ vertex_name = [v \in Objs |-> None]
    /\ edges = Empty
    /\ starting_vertex = None
    /\ restarting_vertex = None
    /\ active_vertex = None
    /\ vertex_state = [v \in Objs |-> DEFAULT_STATE]
    /\ clock = [v \in Objs |-> 0]
    /\ decision = "IsLess"
    /\ whitelist = NoWhitelist
    /\ n_pushes = [v \in Objs |-> 0]
    /\ input = CounterWiring
    /\ output = [v \in Objs |-> <<>>]
    /\ threshold = MaxThreshold
    /\ graph_output = <<>>
    /\ executions = <<>>
    /\ run = [base |-> 0, start |-> None, prev |-> "none", prev_err |-> "none",
              output |-> [v \in Objs |-> <<>>]]
    /\ n_calls = 0
    /\ replaced = Empty
    /\ multi_combo_box = NoComboBox
    /\ gui_resource = NoResource
    /\ nested = NoNested

\* set_vertices assigns value to self.vertices[key]; an exception ends __init__
Register(key, value) ==
    /\ pc = "set_vertices"
    /\ n_calls < MaxInserts
    /\ LET r == VerticesSetItem(vertices, vorder, vertex_name, key, value)
       IN  /\ vertices' = r.vertices
           /\ vorder' = r.vorder
           /\ vertex_name' = r.vertex_name
           /\ err' = r.err
           /\ pc' = IF r.err = "none" THEN pc ELSE "aborted"
    /\ op' = "vertices_setitem"
    /\ op_args' = <<key, value>>
    /\ n_calls' = n_calls + 1
    /\ UNCHANGED <<multi_combo_box, gui_resource, replaced, nested, edges, starting_vertex,
                   restarting_vertex, active_vertex, vertex_state, input, output, threshold,
                   graph_output, executions, run, clock, decision, whitelist, n_pushes>>

\* set_vertices has returned: Graph._initialize_edges
InitializeEdges ==
    /\ pc = "set_vertices"
    /\ edges' = initialize_edges(edges, vertices, vorder, vertex_name)
    /\ pc' = "set_edges"
    /\ op' = "initialize_edges"
    /\ op_args' = <<>>
    /\ err' = "none"
    /\ n_calls' = 0
    /\ UNCHANGED <<multi_combo_box, gui_resource, replaced, nested, vertices, vorder,
                   vertex_name, starting_vertex, restarting_vertex, active_vertex,
                   vertex_state, input, output, threshold, graph_output, executions, run,
                   clock, decision, whitelist, n_pushes>>

\* set_edges calls self.edges.set_flow_chain(*args); an exception ends __init__
FlowChain(args) ==
    /\ pc = "set_edges"
    /\ n_calls < MaxChains
    /\ LET r == set_flow_chain(edges, vertex_name, args)
       IN  /\ edges' = r.edges
           /\ err' = r.err
           /\ pc' = IF r.err = "none" THEN pc ELSE "aborted"
    /\ op' = "set_flow_chain"
    /\ op_args' = args
    /\ n_calls' = n_calls + 1
    /\ UNCHANGED <<multi_combo_box, gui_resource, replaced, nested, vertices, vorder,
                   vertex_name, starting_vertex, restarting_vertex, active_vertex,
                   vertex_state, input, output, threshold, graph_output, executions, run,
                   clock, decision, whitelist, n_pushes>>

\* set_edges names the starting and restarting vertices and returns;
\* wire_data_flow; self.active_vertex = self.starting_vertex
FinishInit(start, restart) ==
    /\ pc = "set_edges"
    /\ starting_vertex' = start
    /\ restarting_vertex' = restart
    /\ active_vertex' = start
    /\ pc' = "idle"
    /\ op' = "init"
    /\ op_args' = <<>>
    /\ err' = "none"
    /\ n_calls' = 0
    /\ UNCHANGED <<multi_combo_box, gui_resource, replaced, nested, vertices, vorder,
                   vertex_name, edges, vertex_state, input, output, threshold, graph_output,
                   executions, run, clock, decision, whitelist, n_pushes>>

NextWire ==
    \/ \E key \in Names, value \in Values : Register(key, value)
    \/ InitializeEdges
    \/ \E args \in ChainLists : FlowChain(args)
    \/ \E start \in {None, "v1"}, restart \in {None, "v3"} : FinishInit(start, restart)

SpecWire == InitWire /\ [][NextWire]_vars

\* The wiring calls of set_edges on a table initialized for the vertices that
\* set_vertices registered

\* the assignments set_vertices makes: all three vertices, two of them, or
\* all three with the decision vertex displaced from its key
InsertLists ==
    { << <<"a", "v1">>, <<"b", "v2">>, <<"c", "v3">> >>,
      << <<"a", "v1">>, <<"c", "v3">> >>,
      << <<"c", "v3">>, <<"b", "v2">> >>,
      << <<"a", "v3">>, <<"a", "v1">>, <<"b", "v2">> >> }

\* set_vertices: the assignments of ins, made in order from the i-th on
RECURSIVE SetVerticesFrom(_, _, _, _, _)
SetVerticesFrom(vs, ord, vn, ins, i) ==
    IF i > Len(ins) THEN [vertices |-> vs, vorder |-> ord, vertex_name |-> vn]
    ELSE LET r == VerticesSetItem(vs, ord, vn, ins[i][1], ins[i][2])
         IN  SetVerticesFrom(r.vertices, r.vorder, r.vertex_name, ins, i + 1)

\* Graph.__init__ up to the call of set_edges
InitEdges ==
    \E ins \in InsertLists :
        LET r == SetVerticesFrom(Empty, <<>>, [v \in Objs |-> None], ins, 1)
        IN  /\ pc = "set_edges"
            /\ op = "initialize_edges"
            /\ op_args = <<>>
            /\ err = "none"
            /\ vertices = r.vertices
            /\ vorder = r.vorder
            /\ vertex_name = r.vertex_name
            /\ edges = initialize_edges(Empty, r.vertices, r.vorder, r.vertex_name)
            /\ starting_vertex = None
            /\ restarting_vertex = None
            /\ active_vertex = None
            /\ vertex_state = [v \in Objs |-> DEFAULT_STATE]
            /\ clock = [v \in Objs |-> 0]
            /\ decision = "IsLess"
            /\ whitelist = NoWhitelist
            /\ n_pushes = [v \in Objs |-> 0]
            /\ input = CounterWiring
            /\ output = [v \in Objs |-> <<>>]
            /\ threshold = MaxThreshold
            /\ graph_output = <<>>
            /\ executions = <<>>
            /\ run = [base |-> 0, start |-> None, prev |-> "none", prev_err |-> "none",
                      output |-> [v \in Objs |-> <<>>]]
            /\ n_calls = 0
            /\ replaced = Empty
            /\ multi_combo_box = NoComboBox
            /\ gui_resource = NoResource
            /\ nested = NoNested

\* the keys set_edges may assign a row to
RowKeys == Names \cup {None}

\* set_edges assigns value to self.edges[key]; an exception ends __init__
SetRow(key, value) ==
    /\ pc = "set_edges"
    /\ n_calls < MaxChains
    /\ LET r == EdgesSetItem(edges, vertex_name, key, value)
       IN  /\ edges' = r.edges
           /\ err' = r.err
           /\ pc' = IF r.err = "none" THEN pc ELSE "aborted"
    /\ op' = "edges_setitem"
    /\ op_args' = <<key, value>>
    /\ n_calls' = n_calls + 1
    /\ replaced' = (IF err' = "none" /\ key \in DOMAIN edges
                    THEN edges[key] ELSE Empty)
    /\ UNCHANGED <<multi_combo_box, gui_resource, nested, vertices, vorder, vertex_name,
                   starting_vertex, restarting_vertex, active_vertex, vertex_state, input,
                   output, threshold, graph_output, executions, run, clock, decision,
                   whitelist, n_pushes>>

\* set_edges calls self.edges.initialize(vertex)
InitializeRow(vertex) ==
    /\ pc = "set_edges"
    /\ n_calls < MaxChains
    /\ LET r == EdgesInitialize(edges, vertex_name, vertex)
       IN  /\ edges' = r.edges
           /\ err' = r.err
           /\ pc' = IF r.err = "none" THEN pc ELSE "aborted"
    /\ op' = "edges_initialize"
    /\ op_args' = <<vertex>>
    /\ n_calls' = n_calls + 1
    /\ replaced' = (IF err' = "none" /\ vertex_name[vertex] \in DOMAIN edges
                    THEN edges[vertex_name[vertex]] ELSE Empty)
    /\ UNCHANGED <<multi_combo_box, gui_resource, nested, vertices, vorder, vertex_name,
                   starting_vertex, restarting_vertex, active_vertex, vertex_state, input,
                   output, threshold, graph_output, executions, run, clock, decision,
                   whitelist, n_pushes>>

NextEdges ==
    \/ \E args \in ArgLists : FlowChain(args)
    \/ \E key \in RowKeys, value \in Values : SetRow(key, value)
    \/ \E vertex \in Objs : InitializeRow(vertex)

SpecEdges == InitEdges /\ [][NextEdges]_vars

\* Constructing a graph and then running it
NextBuild ==
    \/ \E key \in Names, value \in Values : Register(key, value)
    \/ InitializeEdges
    \/ \E args \in ChainLists : FlowChain(args)
    \/ \E start \in {None, "v1"}, restart \in {None, "v3"} : FinishInit(start, restart)
    \/ Next

SpecBuild == InitWire /\ [][NextBuild]_vars

----------------------------------------------------------------------------
(* The protocols of md.py as graphs *)

\* a pipeline whose last vertex is the clock: no edge leads back to check_steps
Pipeline_NoBackEdge(p) ==
    IF p = "MolecularDynamics"
    THEN <<"initial_velocities", "initial_forces", "initial_pressures",
           "check_steps", "false",
           "barostat", "verlet_positions", "calc_static", "verlet_velocities", "clock">>
    ELSE <<"initial_velocities", "initial_forces", "check_steps", "false", "clock">>

\* a pipeline that runs calc_static before verlet_positions
Pipeline_StaticBeforePositions(p) ==
    IF p = "MolecularDynamics"
    THEN <<"initial_velocities", "initial_forces", "initial_pressures",
           "check_steps", "false",
           "barostat", "calc_static", "verlet_positions", "verlet_velocities",
           "clock", "check_steps">>
    ELSE <<"initial_velocities", "initial_forces", "check_steps", "false", "clock",
           "check_steps">>

\* define_execution_flow: the arguments of the protocol's make_pipeline call
Pipeline(p) ==
    CASE p = "MolecularDynamics" ->
           <<"initial_velocities", "initial_forces", "initial_pressures",
             "check_steps", "false",
             "barostat", "verlet_positions", "calc_static", "verlet_velocities",
             "clock", "check_steps">>
      [] p = "ConfinedMD" ->
           <<"initial_velocities", "initial_forces", "initial_pressures",
             "check_steps", "false",
             "barostat", "verlet_positions", "reflect_atoms", "calc_static",
             "verlet_velocities", "running_average_positions",
             "check_thermalized", "true",
             "running_average_forces", "nn", "running_average_nn_distance",
             "running_average_nn_forces", "clock", "check_steps">>
      [] p = "HarmonicMD" ->
           <<"initial_velocities", "initial_forces", "initial_pressures",
             "check_steps", "false",
             "verlet_positions", "calc_harmonic", "verlet_velocities",
             "clock", "check_steps">>
      [] p = "ConfinedHarmonicMD" ->
           <<"initial_velocities", "initial_forces",
             "check_steps", "false",
             "clock", "verlet_positions", "reflect_atoms", "harmonic", "verlet_velocities",
             "check_thermalized", "true",
             "check_sampling_period", "true",
             "running_average", "nn", "average_distance", "check_steps">>

\* a protocol that sends an unthermalized step straight back to check_steps
ExtraEdges_PastClock(p) ==
    CASE p = "ConfinedMD" -> << <<"check_thermalized", "check_steps", "false">> >>
      [] p = "ConfinedHarmonicMD" ->
           << <<"check_thermalized", "check_steps", "false">>,
              <<"check_sampling_period", "check_steps", "false">> >>
      [] OTHER -> <<>>

\* define_execution_flow: the arguments (start, end, state) of the protocol's
\* make_edge calls
ExtraEdges(p) ==
    CASE p = "ConfinedMD" -> << <<"check_thermalized", "clock", "false">> >>
      [] p = "ConfinedHarmonicMD" ->
           << <<"check_thermalized", "check_steps", "false">>,
              <<"check_sampling_period", "check_steps", "false">> >>
      [] OTHER -> <<>>

\* the graph's make_pipeline(*args): a chain of edges along the default state,
\* or along the state named after a vertex
make_pipeline(ed, vn, args) == set_flow_chain(ed, vn, args).edges

\* the graph's make_edge(start, end, state): one edge
make_edge(ed, vn, start, end, state) == set_flow_chain(ed, vn, <<start, state, end>>).edges

RECURSIVE MakeEdgesFrom(_, _, _, _)
MakeEdgesFrom(ed, vn, es, i) ==
    IF i > Len(es) THEN ed
    ELSE MakeEdgesFrom(make_edge(ed, vn, es[i][1], es[i][2], es[i][3]), vn, es, i + 1)

\* the names of the protocol's vertices: each is registered under its key
ProtocolNames(p) == [v \in ProtocolObjs(p) |-> v]

\* the transition table the protocol's construction leaves: rows initialized
\* for the registered vertices, then the pipeline, then the single edges
ProtocolTable(p) ==
    MakeEdgesFrom(
        make_pipeline(
            initialize_edges(Empty, ProtocolNames(p), define_vertices(p), ProtocolNames(p)),
            ProtocolNames(p), Pipeline(p)),
        ProtocolNames(p), ExtraEdges(p), 1)

\* define_information_flow, as far as it decides the control flow: check_steps
\* and check_thermalized read the clock's count, the latter against the input's
\* thermalization_steps, check_sampling_period reads it against the input's
\* sampling_period, the clock counts on from its own last count; every other
\* vertex is a computation that is given here as a count of its own executions
ProtocolWiring(p, thermalization_steps, sampling_period) ==
    [v \in ProtocolObjs(p) |->
        CASE v = "check_steps" -> <<Channel("clock", FALSE)>>
          [] v = "check_thermalized" ->
               <<Channel("clock", FALSE), StaticInput(thermalization_steps)>>
          [] v = "check_sampling_period" ->
               <<Channel("clock", FALSE), StaticInput(sampling_period)>>
          [] v = "clock" -> <<Channel("clock", FALSE)>>
          [] OTHER -> <<Channel(v, TRUE)>>]

\* The state the construction of protocol p leaves: the cursor on
\* initial_velocities, check_steps as the restarting vertex, the clock's count
\* at 0 and every other output empty
ConstructedProtocol(p, n_steps, thermalization_steps, sampling_period) ==
    /\ pc = "idle"
    /\ op = "init"
    /\ op_args = <<>>
    /\ err = "none"
    /\ vertices = ProtocolNames(p)
    /\ vorder = define_vertices(p)
    /\ vertex_name = ProtocolNames(p)
    /\ edges = ProtocolTable(p)
    /\ starting_vertex = "initial_velocities"
    /\ restarting_vertex = "check_steps"
    /\ active_vertex = "initial_velocities"
    /\ vertex_state = [v \in ProtocolObjs(p) |-> DEFAULT_STATE]
    /\ clock = [v \in ProtocolObjs(p) |-> 0]
    /\ decision = "IsGEq"
    /\ whitelist = NoWhitelist
    /\ n_pushes = [v \in ProtocolObjs(p) |-> 0]
    /\ input = ProtocolWiring(p, thermalization_steps, sampling_period)
    /\ output = [v \in ProtocolObjs(p) |-> IF v = "clock" THEN <<0>> ELSE <<>>]
    /\ threshold = n_steps
    /\ graph_output = <<>>
    /\ executions = <<>>
    /\ run = [base |-> 0, start |-> None, prev |-> "none", prev_err |-> "none",
              output |-> [v \in ProtocolObjs(p) |-> <<>>]]
    /\ n_calls = 0
    /\ replaced = Empty
    /\ multi_combo_box = NoComboBox
    /\ gui_resource = NoResource
    /\ nested = NoNested

InitProtocol ==
    \E p \in Protocols, n_steps \in 0..(MaxThreshold - 1),
       thermalization_steps \in 0..(MaxThreshold - 1), sampling_period \in 1..MaxStride :
        ConstructedProtocol(p, n_steps, thermalization_steps, sampling_period)

\* the child executions a history of a protocol can reach
MaxProtocolExec == 4 + 16 * (MaxThreshold + 1)

\* Graph.function of a protocol, loop body, first statement
ProtocolChildExecute ==
    /\ Len(executions) < MaxProtocolExec
    /\ ExecuteActive

\* the caller raises the input's n_steps by d after a reset, before it executes
\* the protocol again
RaiseSteps(d) ==
    /\ pc = "idle"
    /\ op = "reset"
    /\ err = "none"
    /\ threshold + d <= MaxThreshold
    /\ threshold' = threshold + d
    /\ UNCHANGED <<multi_combo_box, gui_resource, replaced, nested, pc, op, op_args, err,
                   vertices, vorder, vertex_name, edges, starting_vertex, restarting_vertex,
                   active_vertex, vertex_state, clock, decision, whitelist, n_pushes, input,
                   output, graph_output, executions, run, n_calls>>

NextProtocol ==
    \/ GraphExecute
    \/ ProtocolChildExecute
    \/ Step
    \/ LoopExit
    \/ Reset
    \/ \E d \in 1..MaxThreshold : RaiseSteps(d)

SpecProtocol == InitProtocol /\ [][NextProtocol]_vars

----------------------------------------------------------------------------
(* A Graph as a child vertex of a Graph *)

\* the parent's vertices are registered under their own names, and so are the
\* children of g
ParentNames == [v \in ParentObjs |-> v]

NestedNames == [w \in NestedObjs |-> w]

\* the parent's tables: p1 leads to g, g leads on to p2, back to itself or
\* nowhere, p2 ends the run on "true" and leads back to g or to p1 on "false"
ParentTables ==
    {[v \in ParentObjs |-> CASE v = "p1" -> r1 [] v = "g" -> rg [] v = "p2" -> r2] :
        r1 \in [possible_vertex_states("p1") -> {"g"}],
        rg \in [possible_vertex_states("g") -> {"p2", "g", None}],
        r2 \in {r \in [possible_vertex_states("p2") -> {"p1", "g", None}] :
                    r["true"] = None /\ r["false"] # None}}

\* the tables of g: w1 leads to w2 or nowhere, either state of w2 leads back to
\* w1 or nowhere
NestedTables ==
    {[w \in NestedObjs |-> CASE w = "w1" -> r1 [] w = "w2" -> r2] :
        r1 \in [possible_vertex_states("w1") -> {"w2", None}],
        r2 \in [possible_vertex_states("w2") -> {"w1", None}]}

\* wire_data_flow of the parent and of g: p1, w1 and w2 count their own
\* executions, p2 counts its own and reads the channel g declares for w1, with
\* a default or without; g has no input or reads p2's output without a default
NestedWirings ==
    {[v \in ParentObjs \cup NestedObjs |->
        CASE v = "g"  -> ig
          [] v = "p2" -> <<Channel("p2", TRUE), Channel(OwnChannel["w1"], hd)>>
          [] OTHER    -> <<Channel(v, TRUE)>>] :
        ig \in {<<>>, <<Channel("p2", FALSE)>>}, hd \in BOOLEAN}

\* the whitelists: none, or a stride for the channel g declares for w1
NestedWhitelists == {NoWhitelist, [c \in {OwnChannel["w1"]} |-> MaxStride]}

\* The state the construction of the parent leaves: set_vertices has
\* constructed g, whose own __init__ has left its cursor on its starting vertex;
\* the parent restarts at g
ConstructedNested(table, start, ntable, nstart, nrestart, wiring, thr, wl) ==
    /\ pc = "idle"
    /\ op = "init"
    /\ op_args = <<>>
    /\ err = "none"
    /\ vertices = ParentNames
    /\ vorder = <<"p1", "g", "p2">>
    /\ vertex_name = [v \in ParentObjs \cup NestedObjs |-> v]
    /\ edges = table
    /\ starting_vertex = start
    /\ restarting_vertex = "g"
    /\ active_vertex = start
    /\ vertex_state = [v \in ParentObjs \cup NestedObjs |-> DEFAULT_STATE]
    /\ clock = [v \in ParentObjs \cup NestedObjs |-> 0]
    /\ decision = "IsGEq"
    /\ whitelist = wl
    /\ n_pushes = [c \in (ParentObjs \ Graphs) \cup NestedObjs \cup OwnChannels |-> 0]
    /\ input = wiring
    /\ output = [c \in (ParentObjs \ Graphs) \cup NestedObjs \cup OwnChannels |-> <<>>]
    /\ threshold = thr
    /\ graph_output = <<>>
    /\ executions = <<>>
    /\ run = [base |-> 0, start |-> None, prev |-> "none", prev_err |-> "none",
              output |-> [c \in (ParentObjs \ Graphs) \cup NestedObjs \cup OwnChannels |-> <<>>]]
    /\ n_calls = 0
    /\ replaced = Empty
    /\ multi_combo_box = NoComboBox
    /\ gui_resource = NoResource
    /\ nested = [pc |-> "out", vertices |-> NestedNames, edges |-> ntable,
                 starting_vertex |-> nstart, restarting_vertex |-> nrestart,
                 active_vertex |-> nstart, returned |-> <<>>,
                 entry |-> [at |-> 0, start |-> None], was_reset |-> FALSE]

InitNested ==
    \E table \in ParentTables, start \in {"p1", "g"}, ntable \in NestedTables,
       nstart \in {"w1", None}, nrestart \in {"w2"}, wiring \in NestedWirings,
       thr \in {MaxThreshold - 3, MaxThreshold - 2}, wl \in NestedWhitelists :
        ConstructedNested(table, start, ntable, nstart, nrestart, wiring, thr, wl)

\* the child executions a history of the two graphs can reach
MaxNestedExec == MaxExec + 1

\* an execute of the nested Graph that puts an empty cursor back on the
\* starting vertex before it runs the loop
NestedExecute_Rewinds ==
    /\ pc = "loop"
    /\ active_vertex \in Graphs
    /\ nested.pc = "out"
    /\ Len(nested.returned) < MaxCalls
    /\ LET shown == InputResolve(input[active_vertex], output)
       IN  IF shown.ok
           THEN /\ pc' = "call"
                /\ err' = err
                /\ nested' = [nested EXCEPT !.pc = "loop",
                       !.entry = [at |-> Len(executions), start |-> nested.active_vertex],
                       !.active_vertex = IF @ = None THEN nested.starting_vertex ELSE @]
           ELSE /\ pc' = "idle"
                /\ err' = "UnresolvedReference"
                /\ nested' = nested
    /\ UNCHANGED <<multi_combo_box, gui_resource, replaced, op, op_args, vertices, vorder,
                   vertex_name, edges, starting_vertex, restarting_vertex, active_vertex,
                   vertex_state, clock, decision, whitelist, n_pushes, input, output,
                   threshold, graph_output, executions, run, n_calls>>

\* the parent's self.active_vertex.execute() when the vertex is a Graph:
\* Vertex.execute resolves g's input and calls g's function, which the parent
\* waits for
NestedExecute ==
    /\ pc = "loop"
    /\ active_vertex \in Graphs
    /\ nested.pc = "out"
    /\ Len(nested.returned) < MaxCalls
    /\ LET shown == InputResolve(input[active_vertex], output)
       IN  IF shown.ok
           THEN /\ pc' = "call"
                /\ err' = err
                /\ nested' = [nested EXCEPT !.pc = "loop",
                       !.entry = [at |-> Len(executions), start |-> nested.active_vertex]]
           ELSE /\ pc' = "idle"
                /\ err' = "UnresolvedReference"
                /\ nested' = nested
    /\ UNCHANGED <<multi_combo_box, gui_resource, replaced, op, op_args, vertices, vorder,
                   vertex_name, edges, starting_vertex, restarting_vertex, active_vertex,
                   vertex_state, clock, decision, whitelist, n_pushes, input, output,
                   threshold, graph_output, executions, run, n_calls>>

\* Graph.function of g, loop body, first statement; an exception leaves every
\* function on the way up to the caller
NestedChildExecute ==
    /\ nested.pc = "loop"
    /\ nested.active_vertex # None
    /\ Len(executions) < MaxNestedExec
    /\ LET w == nested.active_vertex
           r == VertexExecute(w, input, output, threshold, vertex_state[w], decision,
                              whitelist, n_pushes)
       IN  /\ output' = r.output
           /\ n_pushes' = r.n_pushes
           /\ vertex_state' = [vertex_state EXCEPT ![w] = r.state]
           /\ executions' = Append(executions,
                  [vertex |-> w, resolved |-> r.resolved,
                   pushed |-> r.pushed, err |-> r.err, resolutions |-> r.resolutions])
           /\ err' = r.err
           /\ nested' = [nested EXCEPT !.pc = IF r.err = "none" THEN "step" ELSE "out"]
           /\ pc' = IF r.err = "none" THEN pc ELSE "idle"
    /\ UNCHANGED <<multi_combo_box, gui_resource, replaced, op, op_args, vertices, vorder,
                   vertex_name, edges, starting_vertex, restarting_vertex, active_vertex,
                   clock, decision, whitelist, input, threshold, graph_output, run,
                   n_calls>>

\* Graph.function of g, loop body, second statement: self.step()
NestedStep ==
    /\ nested.pc = "step"
    /\ LET r == step(nested.edges, nested.vertices, vertex_name, vertex_state,
                     nested.active_vertex)
       IN  /\ nested' = [nested EXCEPT !.active_vertex = r.active_vertex,
                                       !.pc = IF r.err = "none" THEN "loop" ELSE "out"]
           /\ err' = r.err
           /\ pc' = IF r.err = "none" THEN pc ELSE "idle"
    /\ UNCHANGED <<multi_combo_box, gui_resource, replaced, op, op_args, vertices, vorder,
                   vertex_name, edges, starting_vertex, restarting_vertex, active_vertex,
                   vertex_state, clock, decision, whitelist, n_pushes, input, output,
                   threshold, graph_output, executions, run, n_calls>>

\* Graph.function of g with a loop that gives up after any pass
NestedLoopExit_AnyPass ==
    /\ nested.pc = "loop"
    /\ LET output_data == get_output([w \in NestedObjs |-> output[w]])
           r == update_and_archive(output, n_pushes, whitelist, OwnChannel, output_data)
       IN  /\ output' = r.output
           /\ n_pushes' = r.n_pushes
           /\ nested' = [nested EXCEPT !.pc = "out",
                  !.returned = Append(@, [output_data |-> output_data,
                                          at |-> Len(executions),
                                          from |-> nested.entry.at,
                                          start |-> nested.entry.start])]
    /\ pc' = "step"
    /\ UNCHANGED <<multi_combo_box, gui_resource, replaced, op, op_args, err, vertices,
                   vorder, vertex_name, edges, starting_vertex, restarting_vertex,
                   active_vertex, vertex_state, clock, decision, whitelist, input,
                   threshold, graph_output, executions, run, n_calls>>

\* Graph.function of g after the loop and the rest of g's Vertex.execute: the
\* cursor of g is empty, get_output() is returned and update_and_archive pushes
\* it onto g's own channels; the parent goes on to its step()
NestedLoopExit ==
    /\ nested.pc = "loop"
    /\ nested.active_vertex = None
    /\ LET output_data == get_output([w \in NestedObjs |-> output[w]])
           r == update_and_archive(output, n_pushes, whitelist, OwnChannel, output_data)
       IN  /\ output' = r.output
           /\ n_pushes' = r.n_pushes
           /\ nested' = [nested EXCEPT !.pc = "out",
                  !.returned = Append(@, [output_data |-> output_data,
                                          at |-> Len(executions),
                                          from |-> nested.entry.at,
                                          start |-> nested.entry.start])]
    /\ pc' = "step"
    /\ UNCHANGED <<multi_combo_box, gui_resource, replaced, op, op_args, err, vertices,
                   vorder, vertex_name, edges, starting_vertex, restarting_vertex,
                   active_vertex, vertex_state, clock, decision, whitelist, input,
                   threshold, graph_output, executions, run, n_calls>>

\* the caller calls reset() on g
NestedReset ==
    /\ pc = "idle"
    /\ LET r == reset(nested.active_vertex, nested.restarting_vertex)
       IN  /\ nested' = [nested EXCEPT !.active_vertex = r.active_vertex,
                                       !.was_reset = TRUE]
           /\ err' = r.err
    /\ op' = "reset g"
    /\ UNCHANGED <<multi_combo_box, gui_resource, replaced, pc, op_args, vertices, vorder,
                   vertex_name, edges, starting_vertex, restarting_vertex, active_vertex,
                   vertex_state, clock, decision, whitelist, n_pushes, input, output,
                   threshold, graph_output, executions, run, n_calls>>

\* Graph.function of the parent, loop body, first statement, for a child that
\* is not a Graph
ParentChildExecute ==
    /\ Len(executions) < MaxNestedExec
    /\ ExecuteActive

NextNested ==
    \/ GraphExecute
    \/ ParentChildExecute
    \/ Step
    \/ LoopExit
    \/ Reset
    \/ NestedExecute
    \/ NestedChildExecute
    \/ NestedStep
    \/ NestedLoopExit
    \/ NestedReset

SpecNested == InitNested /\ [][NextNested]_vars

----------------------------------------------------------------------------
(* The notebook widgets: MultiComboBox and GUI_Resource *)

\* the texts a user can enter in the Combobox or that a value list can hold
Texts == {"Theochem", "Physics", "Arts"}

\* the clicks of the upload button in one history
MaxClicks == 4

\* the entries a value list can hold
MaxValues == 4

\* the elements of a list
Elems(s) == {s[i] : i \in DOMAIN s}

\* x in s is false for every two positions of s: the list has no duplicates
NoDuplicates(s) == \A i, j \in DOMAIN s : s[i] = s[j] => i = j

\* list.remove(x): the list without the first occurrence of x, or ValueError
\* and the list as it is
RECURSIVE ListRemove(_, _)
ListRemove(s, x) ==
    IF s = <<>> THEN [value |-> s, err |-> "ValueError"]
    ELSE IF Head(s) = x THEN [value |-> Tail(s), err |-> "none"]
    ELSE LET r == ListRemove(Tail(s), x)
         IN  [value |-> <<Head(s)>> \o r.value, err |-> r.err]

\* MultiComboBox._on_click(b): the value list and the error
on_click(value, description) == ListRemove(value, description)

\* _on_value_change that appends every new text of the options
on_value_change_NoMembershipTest(value, options, add_unknown, new) ==
    IF new \in options \/ add_unknown
    THEN [value |-> Append(value, new), err |-> "none"]
    ELSE [value |-> value, err |-> "none"]

\* MultiComboBox._on_value_change(change): the value list and the error
on_value_change(value, options, add_unknown, new) ==
    IF new \notin Elems(value) /\ (new \in options \/ add_unknown)
    THEN [value |-> Append(value, new), err |-> "none"]
    ELSE [value |-> value, err |-> "none"]

\* a handler that uploads while "S3" is displayed
upload_button_clicked_UploadsOnS3(res, upload_ok, configure_ok) ==
    LET counted == [res EXCEPT !.click_counter = @ + 1, !.disabled = TRUE]
        shown   == res.displayed_filesystem
    IN  IF shown = "S3" /\ ~upload_ok
        THEN [resource |-> counted, trace |-> <<"upload_data">>, err |-> "Exception"]
        ELSE LET next   == IF shown = "S3" THEN "local" ELSE "S3"
                 set    == [counted EXCEPT !.displayed_filesystem = next]
                 before == IF shown = "S3" THEN <<"upload_data", next>> ELSE <<next>>
             IN  IF ~configure_ok
                 THEN [resource |-> set, trace |-> before \o <<"configure">>,
                       err |-> "Exception"]
                 ELSE [resource |-> [set EXCEPT !.disabled = FALSE],
                       trace |-> before \o <<"configure", "update_optionbox">>,
                       err |-> "none"]

\* GUI_Resource._upload_button_clicked(b): the resource and its button when the
\* handler ends, the calls and assignments it made in order, and the exception
\* that ended it; upload_data and filebrowser.configure return or raise
upload_button_clicked(res, upload_ok, configure_ok) ==
    LET counted == [res EXCEPT !.click_counter = @ + 1, !.disabled = TRUE]
        shown   == res.displayed_filesystem
    IN  IF shown = "local" /\ ~upload_ok
        THEN [resource |-> counted, trace |-> <<"upload_data">>, err |-> "Exception"]
        ELSE LET next   == IF shown = "local" THEN "S3" ELSE "local"
                 set    == [counted EXCEPT !.displayed_filesystem = next]
                 before == IF shown = "local" THEN <<"upload_data", next>> ELSE <<next>>
             IN  IF ~configure_ok
                 THEN [resource |-> set, trace |-> before \o <<"configure">>,
                       err |-> "Exception"]
                 ELSE [resource |-> [set EXCEPT !.disabled = FALSE],
                       trace |-> before \o <<"configure", "update_optionbox">>,
                       err |-> "none"]

\* the duplicate-free lists over the texts
ValueLists == {s \in UNION {[1..n -> Texts] : n \in 0..Cardinality(Texts)} : NoDuplicates(s)}

\* No graph has been constructed
NoGraph ==
    /\ pc = "idle"
    /\ op = "none"
    /\ op_args = <<>>
    /\ err = "none"
    /\ vertices = Empty
    /\ vorder = <<>>
    /\ vertex_name = Empty
    /\ edges = Empty
    /\ starting_vertex = None
    /\ restarting_vertex = None
    /\ active_vertex = None
    /\ vertex_state = Empty
    /\ clock = Empty
    /\ decision = "none"
    /\ whitelist = NoWhitelist
    /\ n_pushes = Empty
    /\ input = Empty
    /\ output = Empty
    /\ threshold = 0
    /\ graph_output = <<>>
    /\ executions = <<>>
    /\ run = [base |-> 0, start |-> None, prev |-> "none", prev_err |-> "none",
              output |-> Empty]
    /\ n_calls = 0
    /\ replaced = Empty
    /\ nested = NoNested

\* A MultiComboBox constructed with a duplicate-free value list, any options
\* and add_unknown set or not, and shown (widget()); a GUI_Resource constructed
\* and shown (gui()), which displays "S3"
InitWidgets ==
    /\ NoGraph
    /\ \E value \in ValueLists, options \in SUBSET Texts, add_unknown \in BOOLEAN :
           multi_combo_box = [value |-> value, options |-> options,
                              add_unknown |-> add_unknown, event |-> <<>>, err |-> "none"]
    /\ gui_resource = [displayed_filesystem |-> "S3", click_counter |-> 0,
                       disabled |-> FALSE, clicks |-> <<>>]

GraphVars == <<pc, op, op_args, err, vertices, vorder, vertex_name, edges, starting_vertex,
               restarting_vertex, active_vertex, vertex_state, clock, decision, whitelist,
               n_pushes, input, output, threshold, graph_output, executions, run, n_calls,
               replaced, nested>>

\* the user enters a text in the Combobox: _on_value_change, then _update_widget
ValueChange(new) ==
    /\ Len(multi_combo_box.value) < MaxValues
    /\ LET r == on_value_change(multi_combo_box.value, multi_combo_box.options,
                                multi_combo_box.add_unknown, new)
       IN  multi_combo_box' = [multi_combo_box EXCEPT !.value = r.value, !.err = r.err,
                                                      !.event = <<"value", new>>]
    /\ UNCHANGED <<GraphVars, gui_resource>>

\* the user clicks one of the delete buttons, which _update_widget made for the
\* entries of the value list: _on_click, then _update_widget
DeleteClick(description) ==
    /\ description \in Elems(multi_combo_box.value)
    /\ LET r == on_click(multi_combo_box.value, description)
       IN  multi_combo_box' = [multi_combo_box EXCEPT !.value = r.value, !.err = r.err,
                                                      !.event = <<"click", description>>]
    /\ UNCHANGED <<GraphVars, gui_resource>>

\* the user clicks the upload button, which takes clicks while it is enabled
UploadClick(upload_ok, configure_ok) ==
    /\ ~gui_resource.disabled
    /\ gui_resource.click_counter < MaxClicks
    /\ LET r == upload_button_clicked(gui_resource, upload_ok, configure_ok)
       IN  gui_resource' = [r.resource EXCEPT !.clicks = Append(@,
               [shown |-> gui_resource.displayed_filesystem, trace |-> r.trace,
                err |-> r.err, after |-> r.resource.displayed_filesystem,
                enabled |-> ~r.resource.disabled])]
    /\ UNCHANGED <<GraphVars, multi_combo_box>>

NextWidgets ==
    \/ \E new \in Texts : ValueChange(new)
    \/ \E description \in Texts : DeleteClick(description)
    \/ \E upload_ok \in BOOLEAN, configure_ok \in BOOLEAN : UploadClick(upload_ok, configure_ok)

SpecWidgets == InitWidgets /\ [][NextWidgets]_vars

----------------------------------------------------------------------------
(* Observations the properties are stated with *)

\* Graph.__init__ has returned
ConstructedGraph == pc = "idle"

\* Graph.execute has returned normally and nothing was called since
Returned == pc = "idle" /\ op = "execute" /\ err = "none"

\* an execute call is under way or was the last call
InRun == op = "execute"

\* the current (or last) execute call was made right after an execute call
\* that had returned normally
Repeated == run.prev = "execute" /\ run.prev_err = "none"

\* the child executions of the current (or last) execute call, in order
RunExecutions == SubSeq(executions, run.base + 1, Len(executions))

\* a vertex with the default state set only
Plain(v) == possible_vertex_states(v) = {DEFAULT_STATE}

\* the sequences of distinct vertex objects
Injective(s) == \A i, j \in DOMAIN s : i # j => s[i] # s[j]

VertexSeqs == {s \in UNION {[1..n -> Objs] : n \in 1..Cardinality(Objs)} : Injective(s)}

\* the transition table makes ch a linear chain: each vertex has the default
\* state only, which leads to the next vertex of ch, the last one's to no successor
IsChain(ch) ==
    \A i \in DOMAIN ch :
        /\ Plain(ch[i])
        /\ vertex_name[ch[i]] \in DOMAIN edges
        /\ edges[vertex_name[ch[i]]][DEFAULT_STATE] =
               (IF i < Len(ch) THEN vertex_name[ch[i + 1]] ELSE None)

----------------------------------------------------------------------------
(* C1 *)

\* C1: executing a graph whose table is a linear chain of N vertices, started at
\* the chain's first vertex, executes the chain's vertices once each in chain
\* order: at every point of the run the executions so far are a prefix of the
\* chain and the cursor is on the chain's next vertex, the cursor is empty once
\* all N have executed, and when execute returns exactly N children have
\* executed and the cursor is empty.
C1_LinearChain ==
    \A ch \in VertexSeqs :
        (InRun /\ IsChain(ch) /\ run.start = ch[1]) =>
            LET done == RunExecutions
            IN  /\ Len(done) <= Len(ch)
                /\ \A i \in DOMAIN done : done[i].vertex = ch[i] /\ done[i].err = "none"
                /\ (pc = "loop" /\ Len(done) < Len(ch)) => active_vertex = ch[Len(done) + 1]
                /\ (pc = "loop" /\ Len(done) = Len(ch)) => active_vertex = None
                /\ Returned => (Len(done) = Len(ch) /\ active_vertex = None)

\* a two-vertex chain has been executed to its end
C1_Witness ==
    \E ch \in VertexSeqs :
        /\ Len(ch) = 2
        /\ IsChain(ch)
        /\ run.start = ch[1]
        /\ Returned
        /\ Len(RunExecutions) = 2

----------------------------------------------------------------------------
(* C2 *)

\* C2: in the execution loop, the step after vertex v has executed sets the
\* cursor to the vertex registered under edges[v.name][v.state] when that entry
\* is a name and to empty when it is the no-successor marker; a child is
\* executed only when it is the non-empty cursor, the cursor moves only in step
\* (or in reset), and the graph's output is collected only with the cursor empty.
C2_StepFollowsTable ==
    [][ /\ (pc = "step" /\ pc' # "step") =>
               LET e == edges[vertex_name[active_vertex]][vertex_state[active_vertex]]
               IN  /\ err' = "none"
                   /\ active_vertex' = (IF e = None THEN None ELSE vertices[e])
        /\ (executions' # executions) =>
               /\ pc = "loop"
               /\ active_vertex # None
               /\ Last(executions').vertex = active_vertex
               /\ active_vertex' = active_vertex
        /\ (active_vertex' # active_vertex) =>
               (pc = "step" \/ (pc = "idle" /\ op' = "reset"))
        /\ (graph_output' # graph_output) =>
               (pc = "loop" /\ active_vertex = None /\ active_vertex' = None)
      ]_vars

\* the decision vertex has executed and had a successor, which executed, and the
\* output has been collected
C2_Witness ==
    /\ Returned
    /\ graph_output # <<>>
    /\ \E i \in DOMAIN executions :
          /\ i < Len(executions)
          /\ executions[i].vertex = "v3"
          /\ executions[i + 1].vertex # "v3"

----------------------------------------------------------------------------
(* C3 *)

\* the scenario's graph: the decision vertex counts its own executions from 0
\* and is the first cursor; its "true" leads back to it, its "false" nowhere
CounterLoop ==
    /\ InRun
    /\ run.base = 0
    /\ run.start = "v3"
    /\ edges[vertex_name["v3"]] = [s \in {"true", "false"} |-> IF s = "true" THEN vertex_name["v3"] ELSE None]
    /\ input["v3"] = <<Channel("v3", TRUE)>>

\* C3: in the counter-loop scenario with threshold T the vertex is executed T + 1
\* times and the run ends with the counter's output history 1, 2, ..., T + 1
\* (four executions and [1, 2, 3, 4] for T = 3): at every point of the run the
\* history is 1..k after k executions, the cursor stays on the vertex while
\* k <= T and is empty once k = T + 1.
C3_CounterLoop ==
    CounterLoop =>
        LET k == Len(executions)
        IN  /\ k <= threshold + 1
            /\ \A i \in 1..k : executions[i].vertex = "v3" /\ executions[i].err = "none"
            /\ pc # "step" => output["v3"] = [i \in 1..k |-> i]
            /\ (pc = "loop" /\ k <= threshold) => active_vertex = "v3"
            /\ (pc = "loop" /\ k = threshold + 1) => active_vertex = None
            /\ Returned => (k = threshold + 1 /\ active_vertex = None)

\* the scenario has run to its end with threshold 3
C3_Witness ==
    /\ CounterLoop
    /\ threshold = 3
    /\ Returned
    /\ Len(executions) = 4
    /\ output["v3"] = <<1, 2, 3, 4>>

----------------------------------------------------------------------------
(* C6, C7 *)

\* the step is a call of reset()
ResetCall == pc = "idle" /\ op' = "reset" /\ n_calls' # n_calls

\* what a graph consists of besides its cursor
GraphRest == <<vertices, vorder, vertex_name, edges, starting_vertex, restarting_vertex,
               vertex_state, clock, decision, whitelist, n_pushes, input, output,
               graph_output, threshold>>

\* C6: reset() on a graph whose cursor is non-empty raises ValueError and leaves
\* the cursor, the vertex collection, the transition table and every output
\* history as they were.
C6_ResetWhileActive ==
    [][ (ResetCall /\ active_vertex # None) =>
            /\ err' = "ValueError"
            /\ active_vertex' = active_vertex
            /\ UNCHANGED GraphRest
      ]_vars

\* reset() has been refused on a graph that has executed children
C6_Witness ==
    /\ op = "reset"
    /\ err = "ValueError"
    /\ active_vertex # None
    /\ executions # <<>>

\* C7: reset() on a graph whose cursor is empty raises nothing, sets the cursor
\* to the restart vertex and changes nothing else: the vertex collection, the
\* transition table, the input bindings and the output histories stay.
C7_ResetFrame ==
    [][ (ResetCall /\ active_vertex = None) =>
            /\ err' = "none"
            /\ active_vertex' = restarting_vertex
            /\ UNCHANGED GraphRest
      ]_vars

\* reset() has moved the cursor of a graph that ran to its end, histories kept
C7_Witness ==
    /\ op = "reset"
    /\ err = "none"
    /\ restarting_vertex # None
    /\ active_vertex = restarting_vertex
    /\ graph_output # <<>>
    /\ \E v \in Objs : output[v] # <<>>

----------------------------------------------------------------------------
(* C4, C5 *)

\* C4: once a graph is constructed, the transition table has a row for every
\* registered vertex, under the vertex's name, and that row has exactly one
\* entry per declared state of that vertex.
C4_Completeness ==
    ConstructedGraph =>
        \A k \in DOMAIN vertices :
            /\ vertex_name[vertices[k]] \in DOMAIN edges
            /\ DOMAIN edges[vertex_name[vertices[k]]] = possible_vertex_states(vertices[k])

\* C5: every vertex held by the collection under key k has the name k, after
\* any sequence of insertions.
C5_NameSync ==
    \A k \in DOMAIN vertices : vertex_name[vertices[k]] = k

----------------------------------------------------------------------------
(* C8, C9, C10 *)

\* the successful executions of vertex u before the i-th execution
PushesBefore(u, i) ==
    {k \in 1..(i - 1) : executions[k].vertex = u /\ executions[k].err = "none"}

Max(S) == CHOOSE x \in S : \A y \in S : y <= x

\* the value vertex u pushed last before the i-th execution
LastPushBefore(u, i) == executions[Max(PushesBefore(u, i))].pushed[1]

\* the input channels of the vertex of the i-th execution
ChannelsOf(i) == input[executions[i].vertex]

\* C8: what an execution at step i resolves for a channel that reads vertex u is
\* the value u pushed at its last execution before step i, whatever was pushed
\* earlier or is pushed later, and the default (if any) when u has not executed
\* before step i; the steps already taken are never revised.
C8_CausalOrder ==
    \A i \in DOMAIN executions :
        \A j \in DOMAIN ChannelsOf(i) :
            LET ch == ChannelsOf(i)[j]
            IN  IF PushesBefore(ch.target, i) # {}
                THEN executions[i].resolved[j] = LastPushBefore(ch.target, i)
                ELSE /\ ch.has_default => executions[i].resolved[j] = ch.default
                     /\ ~ch.has_default => executions[i].err # "none"

\* a vertex has read what another vertex pushed in the step just before it, and
\* that vertex had pushed a different value earlier
C8_Witness ==
    \E i \in DOMAIN executions :
        /\ i > 2
        /\ executions[i].err = "none"
        /\ \E j \in DOMAIN ChannelsOf(i) :
              LET u == ChannelsOf(i)[j].target
              IN  /\ u # executions[i].vertex
                  /\ executions[i - 1].vertex = u
                  /\ Cardinality(PushesBefore(u, i)) >= 2
                  /\ executions[i].resolved[j] = executions[i - 1].pushed[1]

\* the channel j read at execution i got its default
GotDefault(i, j) ==
    /\ executions[i].err = "none"
    /\ ChannelsOf(i)[j].has_default
    /\ PushesBefore(ChannelsOf(i)[j].target, i) = {}

\* execution i is the first execution of its vertex
FirstExecution(i) == \A k \in 1..(i - 1) : executions[k].vertex # executions[i].vertex

\* the first execution of the vertex of execution i
FirstOf(i) == CHOOSE k \in 1..i : executions[k].vertex = executions[i].vertex /\
                  \A l \in 1..(k - 1) : executions[l].vertex # executions[i].vertex

\* C9 as stated: in a run that has ended without any failure, a channel with a
\* default whose upstream log was empty when its vertex first executed has got
\* the default at that first execution and at no other.
C9_DefaultExactlyOnce ==
    (Returned /\ \A k \in DOMAIN executions : executions[k].err = "none") =>
        \A i \in DOMAIN executions :
            \A j \in DOMAIN ChannelsOf(i) :
                (ChannelsOf(i)[j].has_default /\ GotDefault(FirstOf(i), j)) =>
                    (GotDefault(i, j) <=> FirstExecution(i))

\* C9 as amended: a channel with a default that reads vertex u gets the default
\* at exactly the executions made while u has not pushed yet, and u's most
\* recent value (which is not the default) at every execution after u's first
\* push; so it gets the default at no execution but the first when u has pushed
\* before the vertex's second execution.
C9_DefaultWhileEmpty ==
    \A i \in DOMAIN executions :
        \A j \in DOMAIN ChannelsOf(i) :
            LET ch == ChannelsOf(i)[j]
            IN  (executions[i].err = "none" /\ ch.has_default) =>
                    /\ (PushesBefore(ch.target, i) = {}) => executions[i].resolved[j] = ch.default
                    /\ (PushesBefore(ch.target, i) # {}) =>
                           /\ executions[i].resolved[j] = LastPushBefore(ch.target, i)
                           /\ executions[i].resolved[j] # ch.default
                    /\ (\A k \in 1..(i - 1) :
                            executions[k].vertex = executions[i].vertex =>
                                PushesBefore(ch.target, k + 1) # {})
                         => (GotDefault(i, j) => FirstExecution(i))

\* a vertex got the default of a channel that reads another vertex at its first
\* execution and that vertex's data at a later one
C9_Witness ==
    \E i, k \in DOMAIN executions :
        /\ i < k
        /\ executions[i].vertex = executions[k].vertex
        /\ executions[k].err = "none"
        /\ \E j \in DOMAIN ChannelsOf(i) :
              /\ ChannelsOf(i)[j].target # executions[i].vertex
              /\ GotDefault(i, j)
              /\ FirstExecution(i)
              /\ PushesBefore(ChannelsOf(i)[j].target, k) # {}
              /\ executions[k].resolved[j] # ChannelsOf(i)[j].default

\* an input channel of the cursor's vertex reads an empty log and has no default
Unresolvable(v) ==
    \E j \in DOMAIN input[v] : output[input[v][j].target] = <<>> /\ ~input[v][j].has_default

\* C10: executing a vertex one of whose input channels reads an empty log and
\* has no default fails before function is invoked: the call raises, no output
\* log and no vertex state changes, and the cursor stays.
C10_AllOrNothing ==
    [][ (executions' # executions /\ Unresolvable(active_vertex)) =>
            /\ err' = "UnresolvedReference"
            /\ pc' = "idle"
            /\ Last(executions').pushed = <<>>
            /\ output' = output
            /\ vertex_state' = vertex_state
            /\ graph_output' = graph_output
            /\ active_vertex' = active_vertex
      ]_vars

\* a vertex with two input channels, the first of them resolvable, has failed
\* after other vertices had pushed
C10_Witness ==
    /\ pc = "idle"
    /\ err = "UnresolvedReference"
    /\ Len(executions) >= 2
    /\ Len(input[Last(executions).vertex]) = 2
    /\ Last(executions).pushed = <<>>
    /\ \E v \in Objs : output[v] # <<>>

----------------------------------------------------------------------------
(* C11, C12 *)

\* the number of values vertex v has pushed so far
Pushed(v) == Cardinality(PushesBefore(v, Len(executions) + 1))

\* the least integer not below m / s
CeilDiv(m, s) == (m + s - 1) \div s

----------------------------------------------------------------------------
(* C13, C14 *)

\* the calls of execute() made on vertex v that have returned
Executed(v) == {k \in DOMAIN executions : executions[k].vertex = v /\ executions[k].err = "none"}

\* C13: after k executions of a vertex its step counter (clock) is 0 + k.
C13_ClockCounts ==
    \A v \in Objs : clock[v] = Cardinality(Executed(v))

\* C14: at every reachable state, from construction onward, the reported state
\* of every vertex is a member of the vertex's declared state set, also for a
\* vertex that declares {"true", "false"} instead of {"next"}.
C14_StateDeclared ==
    \A v \in Objs : vertex_state[v] \in possible_vertex_states(v)

----------------------------------------------------------------------------
(* C19, C20 *)

\* C19: a graph constructed without a starting vertex is constructed without an
\* error and with an empty cursor; the execute that follows construction runs
\* no child, leaves the cursor empty, raises nothing and returns the collected
\* output, which is pushed onto the graph's own channel.
C19_NoStartingVertex ==
    /\ (op = "init" /\ starting_vertex = None) =>
           (pc = "idle" /\ err = "none" /\ active_vertex = None)
    /\ (InRun /\ run.prev = "init" /\ starting_vertex = None) =>
           /\ run.start = None
           /\ pc \in {"loop", "idle"}
           /\ err = "none"
           /\ RunExecutions = <<>>
           /\ output = run.output
           /\ active_vertex = None
           /\ pc = "idle" => (graph_output # <<>> /\ Last(graph_output) = get_output(output))

\* a graph without a starting vertex, and with a restarting vertex, has been
\* executed and has returned
C19_Witness ==
    /\ Returned
    /\ run.prev = "init"
    /\ starting_vertex = None
    /\ restarting_vertex # None
    /\ Len(graph_output) = 1

\* C20: reset() on a graph with an empty cursor and no restarting vertex raises
\* nothing and leaves the cursor empty, and the execute that follows it runs no
\* child: it starts with the cursor empty and no child execution is made in it.
C20_ResetWithoutRestart ==
    [][ /\ (ResetCall /\ active_vertex = None /\ restarting_vertex = None) =>
               (err' = "none" /\ active_vertex' = None /\ pc' = "idle")
        /\ (pc = "idle" /\ pc' = "loop" /\ op = "reset" /\ err = "none"
                /\ restarting_vertex = None) =>
               (run'.start = None /\ active_vertex' = None)
        /\ (run.prev = "reset" /\ run.prev_err = "none" /\ restarting_vertex = None) =>
               (executions' = executions /\ output' = output /\ active_vertex' = None)
      ]_vars

\* a graph that ran its children to completion has been reset without a
\* restarting vertex and executed again, and has returned
C20_Witness ==
    /\ Returned
    /\ run.prev = "reset"
    /\ run.prev_err = "none"
    /\ restarting_vertex = None
    /\ executions # <<>>
    /\ RunExecutions = <<>>
    /\ Len(graph_output) = 2

----------------------------------------------------------------------------
(* C15 *)

\* C15: once a graph is constructed, every successor name stored in the
\* transition table is the key of a registered vertex, and no call of execute
\* ends with a failed table or vertex lookup in Graph.step.
C15_WiringCaughtAtConstruction ==
    ConstructedGraph \/ pc \in {"loop", "step"} =>
        /\ \A n \in DOMAIN edges : \A st \in DOMAIN edges[n] :
               edges[n][st] # None => edges[n][st] \in DOMAIN vertices
        /\ ~(op = "execute" /\ err = "KeyError")

----------------------------------------------------------------------------
(* C16, C17, C18 *)

\* the positions of args that set_flow_chain takes as the source of an edge
Sources(args) == {n \in 1..(Len(args) - 1) : IsVertex(args[n])}

\* the state of the edge out of the source at position n: the string that
\* follows it, or the default state
StateAt(args, n) == IF IsStr(args[n + 1]) THEN args[n + 1] ELSE DEFAULT_STATE

\* the position of the target of that edge
TargetPos(args, n) == IF IsStr(args[n + 1]) THEN n + 2 ELSE n + 1

\* position n is the source of an edge between two vertices
IsEdge(args, n) ==
    /\ n \in Sources(args)
    /\ TargetPos(args, n) <= Len(args)
    /\ IsVertex(args[TargetPos(args, n)])

\* the edge at position n is along a state its source does not declare
Undeclared(args, n) ==
    IsEdge(args, n) /\ StateAt(args, n) \notin possible_vertex_states(args[n])

\* the edge at position n is one set_flow_chain writes
Writable(args, n) ==
    /\ IsEdge(args, n)
    /\ StateAt(args, n) \in possible_vertex_states(args[n])
    /\ vertex_name[args[n]] \in DOMAIN edges

\* C16: a call of set_flow_chain that comes to an edge between two vertices
\* whose state (the string given, or "next" for two consecutive vertices) is not
\* in the source's declared state set raises KeyError and does not write that
\* edge: the table gets no row, and every entry that is new or has changed is
\* the edge of an earlier source of the same call.
C16_UndeclaredState ==
    [][ op' = "set_flow_chain" =>
          LET args == op_args'
          IN  \A k \in 1..Len(args) :
                  (Undeclared(args, k) /\ \A m \in Sources(args) : m < k => Writable(args, m))
                      => /\ err' = "KeyError"
                         /\ pc' = "aborted"
                         /\ DOMAIN edges' = DOMAIN edges
                         /\ \A n \in DOMAIN edges :
                                \A st \in DOMAIN edges'[n] :
                                    (st \in DOMAIN edges[n] => edges'[n][st] # edges[n][st])
                                        => \E m \in Sources(args) :
                                               /\ m < k
                                               /\ vertex_name[args[m]] = n
                                               /\ StateAt(args, m) = st
      ]_vars

\* a chain has written its first edge and failed at its second, which leaves a
\* decision vertex along "next"
C16_Witness ==
    /\ op = "set_flow_chain"
    /\ err = "KeyError"
    /\ "a" \in DOMAIN edges
    /\ "c" \in DOMAIN edges
    /\ edges["a"] = [s \in {DEFAULT_STATE} |-> "c"]
    /\ edges["c"] = [s \in {"true", "false"} |-> None]

\* C17: self.edges[key] = value raises TypeError when value is not a Vertex and
\* ValueError when key is not the vertex's name, and leaves the table as it was;
\* otherwise it raises nothing and the table gets, under the vertex's name, a
\* row that maps every declared state of the vertex to no successor, the other
\* rows staying as they were.
C17_RowCreation ==
    [][ op' = "edges_setitem" =>
          LET key   == op_args'[1]
              value == op_args'[2]
          IN  /\ ~IsVertex(value) => (err' = "TypeError" /\ edges' = edges)
              /\ (IsVertex(value) /\ key # vertex_name[value]) =>
                     (err' = "ValueError" /\ edges' = edges)
              /\ (IsVertex(value) /\ key = vertex_name[value]) =>
                     /\ err' = "none"
                     /\ DOMAIN edges' = DOMAIN edges \cup {vertex_name[value]}
                     /\ edges'[vertex_name[value]] =
                            [st \in possible_vertex_states(value) |-> None]
                     /\ \A n \in DOMAIN edges : n # key => edges'[n] = edges[n]
      ]_vars

\* a row was refused for a key that is not the vertex's name, on a table that
\* has a wired entry
C17_Witness ==
    /\ op = "edges_setitem"
    /\ err = "ValueError"
    /\ \E n \in DOMAIN edges : \E st \in DOMAIN edges[n] : edges[n][st] # None

\* C18: self.vertices[key] = value with a value that is not a Vertex raises
\* TypeError and leaves the collection as it was: no key is added, and no entry
\* and no vertex's name changes.
C18_RejectsNonVertex ==
    [][ (op' = "vertices_setitem" /\ ~IsVertex(op_args'[2])) =>
            /\ err' = "TypeError"
            /\ pc' = "aborted"
            /\ vertices' = vertices
            /\ vorder' = vorder
            /\ vertex_name' = vertex_name
      ]_vars

\* a value that is not a Vertex was refused by a collection that holds a vertex
C18_Witness ==
    /\ op = "vertices_setitem"
    /\ err = "TypeError"
    /\ vertices # Empty

----------------------------------------------------------------------------
(* C23 *)

\* the values vertex v has pushed so far, in the order it pushed them
RECURSIVE PushedValuesUpTo(_, _)
PushedValuesUpTo(v, i) ==
    IF i = 0 THEN <<>>
    ELSE IF executions[i].vertex = v /\ executions[i].err = "none"
         THEN Append(PushedValuesUpTo(v, i - 1), executions[i].pushed[1])
         ELSE PushedValuesUpTo(v, i - 1)

PushedValues(v) == PushedValuesUpTo(v, Len(executions))

\* C23: an output channel the whitelist gives no stride is retained in full:
\* after M pushes its log holds all M pushed values, in push order, whatever
\* strides the whitelist gives the other channels (and for every channel when
\* the whitelist is empty).
C23_FullRetention ==
    \A v \in Objs : v \notin DOMAIN whitelist => output[v] = PushedValues(v)

\* a channel the whitelist does not name holds all of its three pushes, under a
\* whitelist that names another channel
C23_Witness ==
    \E v \in Objs :
        /\ v \notin DOMAIN whitelist
        /\ DOMAIN whitelist # {}
        /\ Len(PushedValues(v)) = 3
        /\ output[v] = PushedValues(v)
        /\ output[v][1] # output[v][3]

----------------------------------------------------------------------------
(* C26 *)

\* the steps of Graph.__init__, in the order of its statements
ConstructionOrder ==
    { <<"set_vertices", "set_edges">>, <<"set_edges", "idle">>,
      <<"set_vertices", "aborted">>, <<"set_edges", "aborted">> }

\* every vertex held by the collection has, under its name, a row whose entries
\* are all the no-successor marker
RowsInitialized(vs, ed) ==
    \A k \in DOMAIN vs :
        /\ vertex_name[vs[k]] \in DOMAIN ed
        /\ \A st \in DOMAIN ed[vertex_name[vs[k]]] : ed[vertex_name[vs[k]]][st] = None

\* C26: construction runs register vertices, initialize edges, wire edges, wire
\* data flow, set cursor, once each and in that order: the rows are initialized
\* once, when set_vertices has returned, and then every registered vertex has an
\* all-no-successor row; a wiring call runs only after that; no child is executed
\* and no output is pushed during construction; and construction ends with the
\* cursor on the designated starting vertex.
C26_ConstructionOrder ==
    [][ /\ pc' # pc => <<pc, pc'>> \in ConstructionOrder
        /\ op' = "vertices_setitem" => (pc = "set_vertices" /\ edges = Empty)
        /\ op' = "initialize_edges" =>
               /\ pc = "set_vertices"
               /\ op # "initialize_edges"
               /\ RowsInitialized(vertices', edges')
               /\ vertices' = vertices
        /\ op' = "set_flow_chain" =>
               /\ pc = "set_edges"
               /\ op \in {"initialize_edges", "set_flow_chain"}
               /\ op = "initialize_edges" => RowsInitialized(vertices, edges)
        /\ executions' = <<>> /\ output' = output /\ vertex_state' = vertex_state
        /\ pc' # "idle" => (active_vertex' = None /\ starting_vertex' = None)
        /\ pc' = "idle" =>
               /\ pc = "set_edges"
               /\ active_vertex' = starting_vertex'
               /\ edges' = edges /\ vertices' = vertices
      ]_vars

\* a graph of two registered vertices has been wired and constructed with its
\* cursor on the starting vertex
C26_Witness ==
    /\ pc = "idle"
    /\ op = "init"
    /\ Cardinality(DOMAIN vertices) >= 2
    /\ \E n \in DOMAIN edges : \E st \in DOMAIN edges[n] : edges[n][st] # None
    /\ starting_vertex = "v1"
    /\ active_vertex = "v1"
    /\ executions = <<>>

----------------------------------------------------------------------------
(* C27 *)

\* the sources of args whose edge is the entry (n, st) of the table
Addressing(args, n, st) ==
    {m \in Sources(args) : vertex_name[args[m]] = n /\ StateAt(args, m) = st}

\* the name of the target of the edge out of the source at position m
TargetName(args, m) == vertex_name[args[TargetPos(args, m)]]

\* the call leaves every entry that no source addresses as it was, and adds no
\* row
OthersUnchanged(args) ==
    /\ DOMAIN edges' = DOMAIN edges
    /\ \A n \in DOMAIN edges :
           /\ DOMAIN edges[n] \subseteq DOMAIN edges'[n]
           /\ \A st \in DOMAIN edges'[n] :
                  Addressing(args, n, st) = {} =>
                      (st \in DOMAIN edges[n] /\ edges'[n][st] = edges[n][st])

\* C27 as stated: after a successful set_flow_chain(a1, ..., an) the table
\* holds, for each Vertex argument v with a successor, the entry
\* edges[v.name][s] = w.name (s the string after v and w the vertex after it, or
\* "next" and the next argument), strings are no sources, and every other entry
\* is as before.
C27_OneEntryPerSource ==
    [][ (op' = "set_flow_chain" /\ err' = "none") =>
          LET args == op_args'
          IN  /\ \A m \in Sources(args) :
                     /\ vertex_name[args[m]] \in DOMAIN edges'
                     /\ StateAt(args, m) \in DOMAIN edges'[vertex_name[args[m]]]
                     /\ edges'[vertex_name[args[m]]][StateAt(args, m)] = TargetName(args, m)
              /\ OthersUnchanged(args)
      ]_vars

\* C27 as amended: the sources write in argument order, so an entry that
\* several Vertex arguments address (the same vertex, or vertices of the same
\* name, along the same state) holds the target of the last of them; every
\* source's entry exists, strings are no sources, and every entry no source
\* addresses is as before.
C27_LastWriteWins ==
    [][ (op' = "set_flow_chain" /\ err' = "none") =>
          LET args == op_args'
          IN  /\ \A m \in Sources(args) :
                     /\ vertex_name[args[m]] \in DOMAIN edges'
                     /\ StateAt(args, m) \in DOMAIN edges'[vertex_name[args[m]]]
                     /\ edges'[vertex_name[args[m]]][StateAt(args, m)] =
                            TargetName(args,
                                Max(Addressing(args, vertex_name[args[m]], StateAt(args, m))))
              /\ OthersUnchanged(args)
      ]_vars

\* a chain of three arguments with a branch state has been written into a table
\* that has another wired entry in the same row
C27_Witness ==
    /\ op = "set_flow_chain"
    /\ err = "none"
    /\ op_args = <<"v3", "true", "v1">>
    /\ "c" \in DOMAIN edges
    /\ edges["c"] = [s \in {"true", "false"} |-> IF s = "true" THEN "a" ELSE "b"]

----------------------------------------------------------------------------
(* C28 *)

\* C28: every call of Vertex.execute resolves the vertex's input set exactly
\* once, and the values passed to function are those of that one resolution.
C28_ResolvedOnce ==
    \A i \in DOMAIN executions :
        /\ Len(executions[i].resolutions) = 1
        /\ executions[i].resolved = executions[i].resolutions[1]

----------------------------------------------------------------------------
(* C25, C29, C24: the MolecularDynamics protocol *)

\* the graph is the one protocol p constructs
IsProtocol(p) == vorder = define_vertices(p)

\* the executions of vertex v among those numbered lo..hi
CountIn(v, lo, hi) == Cardinality({k \in lo..hi : executions[k].vertex = v})

\* the executions of vertex v in the current (or last) execute call
CountInRun(v) == CountIn(v, run.base + 1, Len(executions))

\* the loop of Graph.function has ended
LoopEnded == InRun /\ err = "none" /\ pc \in {"loop", "idle"} /\ active_vertex = None

\* the vertices MolecularDynamics executes once, and its loop body
Preamble == <<"initial_velocities", "initial_forces", "initial_pressures">>

LoopBody == <<"barostat", "verlet_positions", "calc_static", "verlet_velocities", "clock">>

\* the i-th vertex of check_steps, loop body, check_steps, loop body, ...
LoopOrder(i) ==
    IF (i - 1) % (Len(LoopBody) + 1) = 0 THEN "check_steps"
    ELSE LoopBody[(i - 1) % (Len(LoopBody) + 1)]

\* the i-th vertex of a run from the starting vertex
RunOrder(i) == IF i <= Len(Preamble) THEN Preamble[i] ELSE LoopOrder(i - Len(Preamble))

\* C25: a MolecularDynamics run from the starting vertex with n_steps = N, the
\* count starting at 0, never executes a loop-body vertex more than N times or
\* check_steps more than N + 1 times, and ends after exactly N executions of each
\* of barostat, verlet_positions, calc_static, verlet_velocities and clock and
\* N + 1 executions of check_steps, with the count at N and the cursor empty.
C25_StepCount ==
    (IsProtocol("MolecularDynamics") /\ InRun /\ run.base = 0) =>
        /\ err = "none"
        /\ CountInRun("check_steps") <= threshold + 1
        /\ \A i \in DOMAIN LoopBody : CountInRun(LoopBody[i]) <= threshold
        /\ Len(executions) < Len(Preamble) + 1 + threshold * (Len(LoopBody) + 1)
               => ~LoopEnded
        /\ LoopEnded =>
               /\ CountInRun("check_steps") = threshold + 1
               /\ \A i \in DOMAIN LoopBody : CountInRun(LoopBody[i]) = threshold
               /\ Last(output["clock"]) = threshold
               /\ active_vertex = None

\* a run of two steps has ended
C25_Witness ==
    /\ IsProtocol("MolecularDynamics")
    /\ Returned
    /\ run.base = 0
    /\ threshold = 2
    /\ CountInRun("clock") = 2
    /\ CountInRun("check_steps") = 3

\* C29: in MolecularDynamics check_steps is the only vertex with a branch, its
\* "true" has no successor and its "false" leads to barostat; a run from the
\* starting vertex executes initial_velocities, initial_forces,
\* initial_pressures, check_steps and then, each time check_steps has reported
\* "false", barostat, verlet_positions, calc_static, verlet_velocities, clock,
\* check_steps; the loop ends exactly when check_steps has reported "true".
C29_ControlFlow ==
    IsProtocol("MolecularDynamics") =>
        /\ edges["check_steps"] =
               [st \in {"true", "false"} |-> IF st = "true" THEN None ELSE "barostat"]
        /\ \A n \in DOMAIN edges : n # "check_steps" =>
               (DOMAIN edges[n] = {DEFAULT_STATE} /\ edges[n][DEFAULT_STATE] # None)
        /\ (InRun /\ run.base = 0) =>
               /\ run.start = Preamble[1]
               /\ \A i \in DOMAIN RunExecutions :
                      RunExecutions[i].vertex = RunOrder(i) /\ RunExecutions[i].err = "none"
               /\ (pc = "loop" /\ active_vertex # None) =>
                      active_vertex = RunOrder(Len(RunExecutions) + 1)
               /\ (pc = "loop" /\ RunExecutions # <<>>
                       /\ Last(RunExecutions).vertex = "check_steps") =>
                      (active_vertex = None <=> vertex_state["check_steps"] = "true")
               /\ LoopEnded =>
                      /\ Last(RunExecutions).vertex = "check_steps"
                      /\ vertex_state["check_steps"] = "true"

\* a run has gone through the loop body and ended at check_steps
C29_Witness ==
    /\ IsProtocol("MolecularDynamics")
    /\ Returned
    /\ run.base = 0
    /\ Len(RunExecutions) = Len(Preamble) + 1 + (Len(LoopBody) + 1)
    /\ Last(RunExecutions).vertex = "check_steps"
    /\ vertex_state["check_steps"] = "true"

\* the current (or last) execute call was made after a reset() that raised
\* nothing
Resumed == InRun /\ run.prev = "reset" /\ run.prev_err = "none"

\* log s is the beginning of log t
IsPrefix(s, t) == Len(s) <= Len(t) /\ SubSeq(t, 1, Len(s)) = s

\* C24: a MolecularDynamics run that has returned leaves the count at n_steps;
\* the execute that follows a reset() of it starts at check_steps, executes
\* check_steps and then the loop body and check_steps per further step, never
\* initial_velocities, initial_forces or initial_pressures; with n_steps as it
\* was it ends after the one execution of check_steps, with n_steps raised by d
\* it ends after exactly d executions of the loop body and d + 1 of check_steps;
\* every history the earlier run left is kept and continued.
C24_Resume ==
    IsProtocol("MolecularDynamics") =>
        /\ Returned => Last(output["clock"]) = threshold
        /\ (pc = "idle" /\ op = "reset" /\ err = "none" /\ run.prev # "none") =>
               Last(output["clock"]) <= threshold
        /\ Resumed =>
               LET d == threshold - Last(run.output["clock"])
               IN  /\ run.start = "check_steps"
                   /\ err = "none"
                   /\ \A i \in DOMAIN RunExecutions :
                          RunExecutions[i].vertex = LoopOrder(i)
                   /\ \A i \in DOMAIN Preamble : CountInRun(Preamble[i]) = 0
                   /\ \A v \in DOMAIN output : IsPrefix(run.output[v], output[v])
                   /\ CountInRun("clock") <= d
                   /\ LoopEnded =>
                          /\ CountInRun("check_steps") = d + 1
                          /\ \A i \in DOMAIN LoopBody : CountInRun(LoopBody[i]) = d
                          /\ Last(output["clock"]) = threshold
                          /\ Len(output["clock"]) = Len(run.output["clock"]) + d

\* a run of one step was reset, n_steps was raised by two, and the protocol has
\* run the two further steps
C24_Witness ==
    /\ IsProtocol("MolecularDynamics")
    /\ Returned
    /\ Resumed
    /\ Last(run.output["clock"]) = 1
    /\ threshold = 3
    /\ CountInRun("clock") = 2
    /\ CountInRun("initial_velocities") = 0
    /\ output["clock"] = <<0, 1, 2, 3>>

----------------------------------------------------------------------------
(* C30: the loops of the four protocols *)

\* the successors the table gives vertex n, over all of its states
Successors(n) == {edges[n][st] : st \in DOMAIN edges[n]} \ {None}

\* the vertices reached from those of S along the table without leaving a
\* vertex of the set stop
RECURSIVE ReachedFrom(_, _)
ReachedFrom(S, stop) ==
    LET more == S \cup UNION {Successors(n) : n \in S \ stop}
    IN  IF more = S THEN S ELSE ReachedFrom(more, stop)

\* the executions i < j are two consecutive executions of check_steps with the
\* loop body between them
LoopPass(i, j) ==
    /\ i + 1 < j
    /\ executions[i].vertex = "check_steps"
    /\ executions[j].vertex = "check_steps"
    /\ \A k \in (i + 1)..(j - 1) : executions[k].vertex # "check_steps"

\* C30: in the graph of each protocol of md.py the "false" branch of check_steps
\* does not lead back to check_steps along any path that avoids the clock,
\* whichever branch the vertices on it take, and no path leads from the clock to
\* the clock again without passing check_steps; in every run, the clock is
\* executed exactly once between two consecutive executions of check_steps, and
\* the count check_steps reads is one more than the count it read before.
C30_ClockOncePerLoop ==
    /\ edges["check_steps"]["false"] \notin {None, "check_steps"}
    /\ "check_steps" \notin
           UNION {Successors(n) :
                    n \in ReachedFrom({edges["check_steps"]["false"]},
                                      {"clock", "check_steps"}) \ {"clock", "check_steps"}}
    /\ "clock" \notin ReachedFrom(Successors("clock"), {"check_steps", "clock"})
    /\ \A i, j \in DOMAIN executions :
           LoopPass(i, j) =>
               /\ CountIn("clock", i + 1, j - 1) = 1
               /\ executions[j].resolved[1] = executions[i].resolved[1] + 1

\* ConfinedHarmonicMD has gone through its loop by the "false" branch of
\* check_thermalized and by the "true" branches of check_thermalized and
\* check_sampling_period, and has returned
C30_Witness ==
    /\ IsProtocol("ConfinedHarmonicMD")
    /\ Returned
    /\ \E i \in DOMAIN executions :
          /\ i < Len(executions)
          /\ executions[i].vertex = "check_thermalized"
          /\ executions[i + 1].vertex = "check_steps"
    /\ \E i \in DOMAIN executions :
          /\ i < Len(executions)
          /\ executions[i].vertex = "check_sampling_period"
          /\ executions[i + 1].vertex = "running_average"

----------------------------------------------------------------------------
(* A Graph as a child vertex: run to completion, and the Graph's own output *)

\* the vertex whose execute() the innermost running function makes next
InnermostCursor == IF nested.pc = "out" THEN active_vertex ELSE nested.active_vertex

\* C21: run-to-completion across nesting: a step executes at most one leaf
\* vertex, the one under the cursor of the innermost running graph; while the
\* function of a nested Graph runs, the parent waits in its call with its cursor
\* on that Graph; and the parent reaches its step(), and moves its cursor off
\* the Graph, only when the Graph's execute has returned and the Graph's own
\* cursor is empty
C21_RunToCompletion ==
    [][ /\ Len(executions') <= Len(executions) + 1
        /\ (Len(executions') = Len(executions) + 1 =>
                /\ Last(executions').vertex = InnermostCursor
                /\ Last(executions').vertex \notin Graphs)
        /\ (nested.pc # "out" =>
                /\ pc = "call"
                /\ active_vertex \in Graphs
                /\ active_vertex' = active_vertex)
        /\ (active_vertex \in Graphs /\ pc = "step" =>
                /\ nested.pc = "out"
                /\ nested.active_vertex = None)
        /\ (active_vertex \in Graphs /\ active_vertex' # active_vertex =>
                /\ pc = "step"
                /\ nested.pc = "out"
                /\ nested.active_vertex = None)
      ]_vars

\* the parent has moved on from g to p2 after g ran its loop twice and returned
C21_Witness ==
    /\ active_vertex = "p2"
    /\ pc = "loop"
    /\ err = "none"
    /\ Len(nested.returned) = 1
    /\ nested.active_vertex = None
    /\ Len(executions) >= 4
    /\ \A i \in 1..4 : executions[i].vertex = (IF i % 2 = 1 THEN "w1" ELSE "w2")

\* the executes of g that returned key w before the i-th child execution
ReturnsBefore(w, i) ==
    {j \in DOMAIN nested.returned :
        /\ nested.returned[j].at < i
        /\ w \in DOMAIN nested.returned[j].output_data}

\* C22: a Graph is a Vertex: every execute() of g that returns pushes each entry
\* of the mapping get_output returned onto g's own channel of that key, once per
\* key and call, so the channel's value at index -1 is the entry of the latest
\* mapping that has the key, and it is what p2, reading the channel at index -1,
\* resolves in its next execution
C22_GraphIsVertex ==
    /\ \A w \in NestedObjs :
        LET R == ReturnsBefore(w, Len(executions) + 1)
            c == OwnChannel[w]
        IN  /\ n_pushes[c] = Cardinality(R)
            /\ Len(output[c]) = CeilDiv(Cardinality(R), Stride(whitelist, c))
            /\ R # {} => Last(output[c]) = nested.returned[Max(R)].output_data[w]
    /\ \A i \in DOMAIN executions :
        LET R == ReturnsBefore("w1", i)
        IN  executions[i].vertex = "p2" /\ R # {} =>
                /\ executions[i].err = "none"
                /\ executions[i].resolved[2] = nested.returned[Max(R)].output_data["w1"]

\* g has been executed twice and has pushed twice onto its channel for w1, and
\* p2 has read the first of the two results and then the second, a different one
C22_Witness ==
    /\ Len(nested.returned) = 2
    /\ n_pushes[OwnChannel["w1"]] = 2
    /\ n_pushes[OwnChannel["w2"]] >= 1
    /\ nested.returned[1].output_data["w1"] # nested.returned[2].output_data["w1"]
    /\ \E i, j \in DOMAIN executions :
        /\ i < j
        /\ executions[i].vertex = "p2"
        /\ executions[j].vertex = "p2"
        /\ executions[i].resolved[2] = nested.returned[1].output_data["w1"]
        /\ executions[j].resolved[2] = nested.returned[2].output_data["w1"]

----------------------------------------------------------------------------
(* C32: a child's exception *)

\* the last call was an execute that ended with the exception of a child
ChildRaised ==
    /\ pc = "idle"
    /\ op = "execute"
    /\ err # "none"
    /\ Len(executions) > run.base
    /\ Last(executions).err = err

\* the step is a call of execute()
ExecuteCall == pc = "idle" /\ op' = "execute" /\ n_calls' # n_calls

\* C32: when a child's execute raises during Graph.execute, the caller gets the
\* child's error, the cursor stays on the failing vertex, the output logs stay
\* as the earlier steps left them and get_output is not collected; a reset()
\* that follows raises ValueError and leaves the cursor, an execute() that
\* follows starts at the failing vertex
C32_ChildErrorPropagates ==
    [][ /\ (executions' # executions /\ Last(executions').err # "none") =>
                /\ err' = Last(executions').err
                /\ pc' = "idle"
                /\ active_vertex' = active_vertex
                /\ active_vertex' = Last(executions').vertex
                /\ output' = output
                /\ graph_output' = graph_output
        /\ (ChildRaised /\ ResetCall) =>
                /\ err' = "ValueError"
                /\ active_vertex' = Last(executions).vertex
        /\ (ChildRaised /\ ExecuteCall) =>
                /\ pc' = "loop"
                /\ active_vertex' = Last(executions).vertex
                /\ run'.start = Last(executions).vertex
        /\ (pc = "loop" /\ Len(executions) = run.base /\ executions' # executions) =>
                Last(executions').vertex = run.start
      ]_vars

\* a child failed after others had pushed, the reset that followed raised, and
\* the execute after it ran the failing vertex again
C32_Witness ==
    /\ ChildRaised
    /\ run.prev = "reset"
    /\ run.prev_err = "ValueError"
    /\ Len(executions) >= 3
    /\ executions[Len(executions) - 1].err # "none"
    /\ executions[Len(executions) - 1].vertex = Last(executions).vertex
    /\ run.start = Last(executions).vertex
    /\ \E v \in Objs : output[v] # <<>>

----------------------------------------------------------------------------
(* C33: executing a graph whose cursor is empty *)

\* the child executions made during the j-th execute of g that returned
ExecutedIn(j) == nested.returned[j].at - nested.returned[j].from

\* C33: an execute of a Graph that finds its cursor empty executes no child and
\* collects and pushes get_output again: the parent's execute right after one
\* that returned makes no child execution and adds the mapping it added
\* before; an execute of g entered with g's cursor empty runs no child of g,
\* returns the mapping of g's execute before it and pushes it onto g's channels
\* once more; and while reset() is not called on g, every execute of g after
\* its first is such an execute, however often the parent comes back to g
C33_EmptyCursorExecute ==
    /\ (InRun /\ Repeated) =>
           /\ run.start = None
           /\ RunExecutions = <<>>
           /\ Returned =>
                  graph_output[Len(graph_output)] = graph_output[Len(graph_output) - 1]
    /\ \A j \in DOMAIN nested.returned :
        /\ nested.returned[j].start = None =>
               /\ ExecutedIn(j) = 0
               /\ j > 1 => nested.returned[j].output_data = nested.returned[j - 1].output_data
        /\ (j > 1 /\ ~nested.was_reset) => nested.returned[j].start = None
        /\ \A w \in DOMAIN nested.returned[j].output_data :
               n_pushes[OwnChannel[w]] >= Cardinality({i \in 1..j :
                    w \in DOMAIN nested.returned[i].output_data})
    /\ (nested.pc # "out" /\ nested.entry.start = None) =>
           /\ Len(executions) = nested.entry.at
           /\ nested.active_vertex = None

\* the parent has come back to g twice over its back-edge: g ran its children in
\* its first execute only and has pushed the same mapping three times
C33_Witness ==
    /\ Len(nested.returned) = 3
    /\ ~nested.was_reset
    /\ ExecutedIn(1) = 2
    /\ ExecutedIn(2) = 0
    /\ ExecutedIn(3) = 0
    /\ nested.returned[3].output_data = nested.returned[1].output_data
    /\ n_pushes[OwnChannel["w1"]] = 3
    /\ \E i \in DOMAIN executions : executions[i].vertex = "p2"

----------------------------------------------------------------------------
(* C34: set_flow_chain is not atomic *)

\* the position of the source at which the call raises: the first source whose
\* edge set_flow_chain does not write
FailingSource(args) ==
    CHOOSE k \in Sources(args) :
        /\ ~Writable(args, k)
        /\ \A m \in Sources(args) : m < k => Writable(args, m)

\* the sources before position k whose edge is the entry (n, st) of the table
AddressingBefore(args, n, st, k) == {m \in Addressing(args, n, st) : m < k}

\* the entry (n, st) is in the table after the step exactly if it was before,
\* with the same successor
Untouched(n, st) ==
    IF n \in DOMAIN edges /\ st \in DOMAIN edges[n]
    THEN n \in DOMAIN edges' /\ st \in DOMAIN edges'[n] /\ edges'[n][st] = edges[n][st]
    ELSE n \notin DOMAIN edges' \/ st \notin DOMAIN edges'[n]

\* the call raised TypeError or KeyError
RaisedInChain == op' = "set_flow_chain" /\ err' \in {"TypeError", "KeyError"}

\* C34 as stated: when set_flow_chain raises TypeError or KeyError at its k-th
\* source, the edges of the sources before it are in the table and the entries
\* of the k-th and of every later source are as they were before the call.
C34_PrefixWrittenRestUntouched ==
    [][ RaisedInChain =>
          LET args == op_args'
              k    == FailingSource(args)
          IN  /\ \A m \in Sources(args) : m < k =>
                     edges'[vertex_name[args[m]]][StateAt(args, m)] = TargetName(args, m)
              /\ \A m \in Sources(args) : m >= k =>
                     Untouched(vertex_name[args[m]], StateAt(args, m))
      ]_vars

\* C34 as amended: when set_flow_chain raises TypeError or KeyError at its k-th
\* source, every entry that a source before the k-th addresses holds the target
\* of the last of them, and every other entry, the entries of the k-th and of
\* the later sources among them, is as it was before the call; no row is added.
C34_PrefixWritten ==
    [][ RaisedInChain =>
          \A args \in {op_args'} : \A k \in {FailingSource(args)} :
              /\ DOMAIN edges' = DOMAIN edges
              /\ \A m \in Sources(args) : m < k =>
                     \A n \in {vertex_name[args[m]]} : \A st \in {StateAt(args, m)} :
                         edges'[n][st] =
                             TargetName(args, Max(AddressingBefore(args, n, st, k)))
              /\ \A n \in DOMAIN edges' : \A st \in DOMAIN edges'[n] :
                     AddressingBefore(args, n, st, k) = {} => Untouched(n, st)
              /\ \A m \in Sources(args) : m >= k =>
                     \A n \in {vertex_name[args[m]]} : \A st \in {StateAt(args, m)} :
                         AddressingBefore(args, n, st, k) = {} => Untouched(n, st)
      ]_vars

\* a chain has written the edge of its first source and raised TypeError at its
\* second, whose entry is as the initialization left it
C34_Witness ==
    /\ op = "set_flow_chain"
    /\ err = "TypeError"
    /\ op_args = <<"v1", "v2", NotAVertex>>
    /\ "a" \in DOMAIN edges
    /\ "b" \in DOMAIN edges
    /\ edges["a"] = [s \in {DEFAULT_STATE} |-> "b"]
    /\ edges["b"] = [s \in {DEFAULT_STATE} |-> None]

----------------------------------------------------------------------------
(* C35: initializing a row again *)

\* C35: edges.initialize(vertex) for a vertex whose name has a row raises
\* nothing and puts in that row's place the row that maps every declared state
\* of the vertex to no successor, whatever the row held; no row is added, and
\* every row under another name is as it was, with the entries that name this
\* vertex as successor.
C35_Reinitialize ==
    [][ (op' = "edges_initialize" /\ vertex_name[op_args'[1]] \in DOMAIN edges) =>
          LET vertex == op_args'[1]
              n      == vertex_name[vertex]
          IN  /\ err' = "none"
              /\ replaced' = edges[n]
              /\ DOMAIN edges' = DOMAIN edges
              /\ edges'[n] = [st \in possible_vertex_states(vertex) |-> None]
              /\ \A m \in DOMAIN edges : m # n => edges'[m] = edges[m]
      ]_vars

\* the row of v1 was wired to v2 and has been initialized again, and the row of
\* v2 still names v1 as its successor
C35_Witness ==
    /\ op = "edges_initialize"
    /\ err = "none"
    /\ op_args = <<"v1">>
    /\ replaced = [s \in {DEFAULT_STATE} |-> "b"]
    /\ "a" \in DOMAIN edges
    /\ "b" \in DOMAIN edges
    /\ edges["a"] = [s \in {DEFAULT_STATE} |-> None]
    /\ edges["b"] = [s \in {DEFAULT_STATE} |-> "a"]

----------------------------------------------------------------------------
(* C36: the setter of vertex_state *)

\* C36: v.vertex_state = new_state with new_state outside v's declared states
\* raises ValueError and leaves every reported state as it was; with a declared
\* state it raises nothing, v reports new_state and the other vertices' reported
\* states are as they were.
C36_StateSetter ==
    [][ op' = "set_vertex_state" =>
          LET v         == op_args'[1]
              new_state == op_args'[2]
          IN  /\ new_state \notin possible_vertex_states(v) =>
                     /\ err' = "ValueError"
                     /\ vertex_state' = vertex_state
              /\ new_state \in possible_vertex_states(v) =>
                     /\ err' = "none"
                     /\ vertex_state'[v] = new_state
                     /\ \A u \in Objs \ {v} : vertex_state'[u] = vertex_state[u]
      ]_vars

\* the decision vertex has reported "true" in a run, and the assignment of the
\* state it was constructed with, "next", was refused
C36_Witness ==
    /\ op = "set_vertex_state"
    /\ err = "ValueError"
    /\ op_args = <<"v3", DEFAULT_STATE>>
    /\ vertex_state["v3"] = "true"
    /\ \E i \in DOMAIN executions : executions[i].vertex = "v3"

----------------------------------------------------------------------------
(* C38: the selection list of a MultiComboBox *)

\* C38: from a duplicate-free value list, every value-change event and every
\* click of a delete button leaves the list without duplicates; a value-change
\* event adds nothing or appends the entered text, and appends it only if it
\* is one of the options or add_unknown is set; a click of the delete button
\* of a value removes that value and nothing else, the others keeping their
\* order, and raises nothing.
C38_SelectionList ==
    [][ multi_combo_box' # multi_combo_box =>
          LET value  == multi_combo_box.value
              value2 == multi_combo_box'.value
              event  == multi_combo_box'.event
          IN  /\ NoDuplicates(value2)
              /\ multi_combo_box'.err = "none"
              /\ event[1] = "value" =>
                     /\ value2 = value \/ value2 = Append(value, event[2])
                     /\ value2 # value =>
                            event[2] \in multi_combo_box.options
                                \/ multi_combo_box.add_unknown
              /\ event[1] = "click" =>
                     /\ event[2] \notin Elems(value2)
                     /\ Elems(value2) = Elems(value) \ {event[2]}
                     /\ Len(value2) = Len(value) - 1
                     /\ \A i, j \in DOMAIN value :
                            (i < j /\ value[i] # event[2] /\ value[j] # event[2]) =>
                                \E k, l \in DOMAIN value2 :
                                    k < l /\ value2[k] = value[i] /\ value2[l] = value[j]
      ]_vars

\* a value has been deleted by its button from a list that holds a text
\* outside the options, add_unknown being set
C38_Witness ==
    /\ multi_combo_box.add_unknown
    /\ multi_combo_box.options = {"Physics"}
    /\ multi_combo_box.value = <<"Physics", "Arts">>
    /\ multi_combo_box.event = <<"click", "Theochem">>

----------------------------------------------------------------------------
(* C37: the upload button of the resource view *)

\* the calls and assignments of a click's handler hold x
InTrace(click, x) == \E i \in DOMAIN click.trace : click.trace[i] = x

\* C37: the displayed file system is "S3" or "local"; the click counter is the
\* number of clicks; the clicks made after completed clicks only find "S3"
\* displayed when their number is odd and "local" when it is even; a click
\* calls upload_data exactly if it finds "local" displayed, and calls it before
\* it sets the displayed file system to "S3"; a click that completes without
\* error has switched the displayed file system and enabled the button again.
C37_UploadButton ==
    LET clicks == gui_resource.clicks
    IN  /\ gui_resource # NoResource => gui_resource.displayed_filesystem \in {"S3", "local"}
        /\ gui_resource.click_counter = Len(clicks)
        /\ \A i \in DOMAIN clicks :
               /\ (\A j \in 1..(i - 1) : clicks[j].err = "none") =>
                      clicks[i].shown = (IF i % 2 = 1 THEN "S3" ELSE "local")
               /\ InTrace(clicks[i], "upload_data") <=> clicks[i].shown = "local"
               /\ \A k \in DOMAIN clicks[i].trace :
                      (clicks[i].shown = "local" /\ clicks[i].trace[k] = "S3") =>
                          \E l \in 1..(k - 1) : clicks[i].trace[l] = "upload_data"
               /\ clicks[i].err = "none" =>
                      /\ clicks[i].after # clicks[i].shown
                      /\ clicks[i].after \in {"S3", "local"}
                      /\ clicks[i].enabled
                      /\ i < Len(clicks) => clicks[i + 1].shown = clicks[i].after
                      /\ i = Len(clicks) =>
                             /\ gui_resource.displayed_filesystem = clicks[i].after
                             /\ ~gui_resource.disabled

\* four clicks have completed: the second and the fourth uploaded and "S3" is
\* displayed again
C37_Witness ==
    /\ Len(gui_resource.clicks) = 4
    /\ \A i \in 1..4 : gui_resource.clicks[i].err = "none"
    /\ InTrace(gui_resource.clicks[2], "upload_data")
    /\ InTrace(gui_resource.clicks[4], "upload_data")
    /\ gui_resource.displayed_filesystem = "S3"
    /\ gui_resource.click_counter = 4

----------------------------------------------------------------------------
(* C31: the references of the MolecularDynamics wiring resolve *)

\* the defaults an input channel can have: none, a value of the graph's input,
\* or a sibling's output channel read at index -1
NoDefault == [kind |-> "none", vertex |-> None, channel |-> None]

InputDefault == [kind |-> "static", vertex |-> None, channel |-> None]

OutputDefault(vertex, channel) == [kind |-> "sibling", vertex |-> vertex, channel |-> channel]

\* g.<v>.input.<name> = gp.<vertex>.output.<channel>[-1], with the default
\* g.<v>.input.default.<name> if there is one
Bound(name, vertex, channel, default) ==
    [input |-> name, vertex |-> vertex, channel |-> channel, default |-> default]

\* MolecularDynamics.define_information_flow: the inputs of each vertex that
\* are bound to a sibling's output (the others are bound to the graph's input)
define_information_flow ==
    [v \in ProtocolObjs("MolecularDynamics") |->
        CASE v = "check_steps" ->
               <<Bound("target", "clock", "n_counts", NoDefault)>>
          [] v = "barostat" ->
               <<Bound("box_pressure", "calc_static", "pressures",
                       OutputDefault("initial_pressures", "zeros")),
                 Bound("structure", "barostat", "structure", InputDefault),
                 Bound("energy_kin", "verlet_velocities", "energy_kin", InputDefault),
                 Bound("previous_volume", "calc_static", "volume", InputDefault),
                 Bound("positions", "verlet_positions", "positions", InputDefault)>>
          [] v = "verlet_positions" ->
               <<Bound("positions", "barostat", "positions", NoDefault),
                 Bound("velocities", "verlet_velocities", "velocities",
                       OutputDefault("initial_velocities", "velocities")),
                 Bound("forces", "calc_static", "forces",
                       OutputDefault("initial_forces", "zeros"))>>
          [] v = "calc_static" ->
               <<Bound("structure", "barostat", "structure", NoDefault),
                 Bound("cell", "barostat", "structure", NoDefault),
                 Bound("positions", "verlet_positions", "positions", NoDefault)>>
          [] v = "verlet_velocities" ->
               <<Bound("velocities", "verlet_positions", "velocities", NoDefault),
                 Bound("forces", "calc_static", "forces", NoDefault)>>
          [] OTHER -> <<>>]

\* the graph is that of a MolecularDynamics protocol
IsMolecularDynamics == vorder = define_vertices("MolecularDynamics")

\* the outputs of u hold a value that no execution has pushed: they were
\* seeded when u was constructed
Seeded(u) == Len(output[u]) > n_pushes[u]

\* an execution before the i-th has pushed the outputs of u
PushedBefore(u, i) ==
    \E j \in 1..(i - 1) : executions[j].vertex = u /\ executions[j].pushed # <<>>

\* an execution before the i-th has pushed the outputs of u, and check_steps
\* has not run between the two: they belong to one pass
PushedInPassBefore(u, i) ==
    \E j \in 1..(i - 1) :
        /\ executions[j].vertex = u
        /\ executions[j].pushed # <<>>
        /\ \A k \in (j + 1)..(i - 1) : executions[k].vertex # "check_steps"

\* the input bound by b resolves when the i-th execution starts: the channel it
\* reads holds a value, or else its default is a value of the graph's input or
\* reads a channel that holds a value
ResolvesAt(b, i) ==
    \/ Seeded(b.vertex) \/ PushedBefore(b.vertex, i)
    \/ b.default.kind = "static"
    \/ /\ b.default.kind = "sibling"
       /\ Seeded(b.default.vertex) \/ PushedBefore(b.default.vertex, i)

====
